---- MODULE Spec2Model ----
(***************************************************************************)
(* A model of the static code analyzer of solutions/006-code-analyzer:     *)
(* the tokenizer (tokenizer.js), the complexity analyzer (complexity.js)   *)
(* and the dead-code detector (dead-code.js).                              *)
(*                                                                         *)
(* A source text is a sequence of one-character strings.  Indices into     *)
(* the source and into token arrays are 0-based, as in the JavaScript      *)
(* code: the element at JavaScript index k is seq[k + 1].                  *)
(***************************************************************************)
EXTENDS Integers, Sequences, FiniteSets, TLC

(***************************************************************************)
(* Bounds of the model.                                                    *)
(***************************************************************************)
\* The number of fragments a generated source text is made of.
MaxFrags == 3
\* The number of phrases a generated token array is made of.
MaxPhrases == 4

VARIABLES
    \* tokenize(source): the argument and the closure's local state
    source, i, line, col, tokens, lastSignificant, pc,
    \* analyzeComplexity(tokens): the argument, the discovery loop's index,
    \* the function records found, the results pushed so far
    cxTokens, cxI, fnDefs, fnK, results, cxPc,
    \* detectDeadCode(tokens, lines): the arguments, the loop index, the issues
    dcTokens, dcLines, dcI, issues, dcPc,
    \* parseImports(tokens, filePath): the arguments, the loop index, the
    \* import records
    imTokens, imFile, imI, imports, imPc,
    \* buildGraph(fileData): the argument, the Map built, the outer loop's
    \* index
    fileData, graph, bgI, bgPc,
    \* detectCircularDeps(graph): the argument, the closure's cycles, visited
    \* and inStack, the path array, the active calls of dfs, the index of the
    \* loop over graph.keys()
    cdGraph, cycles, visited, inStack, path, frames, cdOuter, cdPc,
    \* analyze(source, options): the arguments and the outcome
    anSource, anOptions, anResult, anPc,
    \* calls of the analysis one after the other: where the current call is,
    \* and the source and result of every call that has returned
    rpPc, rpLog,
    \* createQueue(concurrency): the argument, the closure's tasks, running,
    \* paused and drainResolvers; where every task handed to add() is, and
    \* the state of every promise drain() returned
    quConcurrency, quTasks, quRunning, quPaused, quDrainResolvers, quTask,
    quDrains, quPc,
    \* debounce(fn, ms, opts): opts.leading, the closure's timer and window,
    \* every window object created, every call of the debounced function and
    \* every invocation of fn
    dbLeading, dbTimer, dbWindow, dbWins, dbCalls, dbInvs, dbPc,
    \* pool(tasks, concurrency, opts): what each element of tasks is, the
    \* concurrency argument, the state of opts.signal; the locals taskIndex,
    \* completed, results and errors; what each worker awaits; where each
    \* task is and how often it was called; the outcome of pool's promise;
    \* what opts.onProgress is, and the workers whose promises are rejected,
    \* in the order of rejection
    plKinds, plConcurrency, plSignal, plTaskIndex, plCompleted, plResults,
    plErrors, plWorkers, plTask, plInvoked, plOutcome, plPc,
    plOnProgress, plCrashes,
    \* the test runner: the calls of the test file still to be made, the
    \* suites and tests created so far, #current, hasOnly, the work run()
    \* still has to do, the callbacks executed so far, the number of those
    \* that threw, stats, and where the runner is
    rnScript, rnSuites, rnTests, rnCurrent, rnHasOnly, rnAgenda, rnLog,
    rnThrows, rnStats, rnPc,
    \* analyzeFiles(files, options): the files argument, the array of the
    \* first pass, and the results the second pass has returned so far
    afFiles, afTokenized, afResults, afPc

tokVars == <<source, i, line, col, tokens, lastSignificant, pc>>
cxVars == <<cxTokens, cxI, fnDefs, fnK, results, cxPc>>
dcVars == <<dcTokens, dcLines, dcI, issues, dcPc>>
imVars == <<imTokens, imFile, imI, imports, imPc>>
bgVars == <<fileData, graph, bgI, bgPc>>
cdVars == <<cdGraph, cycles, visited, inStack, path, frames, cdOuter, cdPc>>
anVars == <<anSource, anOptions, anResult, anPc>>
rpVars == <<rpPc, rpLog>>
quVars == <<quConcurrency, quTasks, quRunning, quPaused, quDrainResolvers,
            quTask, quDrains, quPc>>
\* The state of the analyzer's functions, and the state of everything else.
azVars == <<tokVars, cxVars, dcVars, imVars, bgVars, cdVars, anVars>>
dbVars == <<dbLeading, dbTimer, dbWindow, dbWins, dbCalls, dbInvs, dbPc>>
plVars == <<plKinds, plConcurrency, plSignal, plTaskIndex, plCompleted,
            plResults, plErrors, plWorkers, plTask, plInvoked,
            plOutcome, plPc, plOnProgress, plCrashes>>
rnVars == <<rnScript, rnSuites, rnTests, rnCurrent, rnHasOnly, rnAgenda,
            rnLog, rnThrows, rnStats, rnPc>>
afVars == <<afFiles, afTokenized, afResults, afPc>>
newVars == <<rpVars, quVars, dbVars, plVars, rnVars, afVars>>
rpOthers == <<quVars, dbVars, plVars, rnVars, afVars>>
quOthers == <<azVars, rpVars, dbVars, plVars, rnVars, afVars>>
dbOthers == <<azVars, rpVars, quVars, plVars, rnVars, afVars>>
plOthers == <<azVars, rpVars, quVars, dbVars, rnVars, afVars>>
rnOthers == <<azVars, rpVars, quVars, dbVars, plVars, afVars>>
afOthers == <<azVars, rpVars, quVars, dbVars, plVars, rnVars>>
vars == <<azVars, newVars>>

\* What a function leaves alone: the state of all the others.
tokOthers == <<cxVars, dcVars, imVars, bgVars, cdVars, anVars,
             newVars>>
cxOthers == <<tokVars, dcVars, imVars, bgVars, cdVars, anVars,
             newVars>>
dcOthers == <<tokVars, cxVars, imVars, bgVars, cdVars, anVars,
             newVars>>
imOthers == <<tokVars, cxVars, dcVars, bgVars, cdVars, anVars,
             newVars>>
bgOthers == <<tokVars, cxVars, dcVars, imVars, cdVars, anVars,
             newVars>>
cdOthers == <<tokVars, cxVars, dcVars, imVars, bgVars, anVars,
             newVars>>
anOthers == <<tokVars, cxVars, dcVars, imVars, bgVars, cdVars,
             newVars>>

\* No call is in progress or has returned.
NoCall ==
    /\ pc = "idle" /\ cxPc = "idle" /\ dcPc = "idle" /\ imPc = "idle"
    /\ bgPc = "idle" /\ cdPc = "idle" /\ anPc = "idle"
    /\ rpPc = "idle" /\ quPc = "idle" /\ dbPc = "idle" /\ plPc = "idle"
    /\ rnPc = "idle" /\ afPc = "idle"

(***************************************************************************)
(* Characters.                                                             *)
(***************************************************************************)
NL == "\n"
BS == "\\"
DQ == "\""
SQ == "'"
\* The backquote, which a TLA+ string cannot hold.
BT == "BACKQUOTE"
\* The vertical tab, which a TLA+ string cannot hold
VT == "VTAB"

KEYWORDS ==
    {
      <<"b", "r", "e", "a", "k">>, <<"c", "a", "s", "e">>,
      <<"c", "a", "t", "c", "h">>, <<"c", "l", "a", "s", "s">>,
      <<"c", "o", "n", "s", "t">>,
      <<"c", "o", "n", "t", "i", "n", "u", "e">>,
      <<"d", "e", "b", "u", "g", "g", "e", "r">>,
      <<"d", "e", "f", "a", "u", "l", "t">>,
      <<"d", "e", "l", "e", "t", "e">>, <<"d", "o">>, <<"e", "l", "s", "e">>,
      <<"e", "x", "p", "o", "r", "t">>,
      <<"e", "x", "t", "e", "n", "d", "s">>, <<"f", "a", "l", "s", "e">>,
      <<"f", "i", "n", "a", "l", "l", "y">>, <<"f", "o", "r">>,
      <<"f", "r", "o", "m">>, <<"f", "u", "n", "c", "t", "i", "o", "n">>,
      <<"g", "e", "t">>, <<"i", "f">>, <<"i", "m", "p", "o", "r", "t">>,
      <<"i", "n">>, <<"i", "n", "s", "t", "a", "n", "c", "e", "o", "f">>,
      <<"l", "e", "t">>, <<"n", "e", "w">>, <<"n", "u", "l", "l">>,
      <<"o", "f">>, <<"r", "e", "t", "u", "r", "n">>, <<"s", "e", "t">>,
      <<"s", "t", "a", "t", "i", "c">>, <<"s", "u", "p", "e", "r">>,
      <<"s", "w", "i", "t", "c", "h">>, <<"t", "h", "i", "s">>,
      <<"t", "h", "r", "o", "w">>, <<"t", "r", "u", "e">>, <<"t", "r", "y">>,
      <<"t", "y", "p", "e", "o", "f">>,
      <<"u", "n", "d", "e", "f", "i", "n", "e", "d">>, <<"v", "a", "r">>,
      <<"v", "o", "i", "d">>, <<"w", "h", "i", "l", "e">>,
      <<"w", "i", "t", "h">>, <<"y", "i", "e", "l", "d">>,
      <<"a", "s", "y", "n", "c">>, <<"a", "w", "a", "i", "t">>
    }

OPERATORS ==
    <<
      <<">", ">", ">", "=">>, <<"*", "*", "=">>, <<"&", "&", "=">>,
      <<"|", "|", "=">>, <<"?", "?", "=">>, <<".", ".", ".">>,
      <<"=", "=", "=">>, <<"!", "=", "=">>, <<">", ">", ">">>,
      <<"<", "<", "=">>, <<">", ">", "=">>, <<"<", "=">>, <<">", "=">>,
      <<"=", "=">>, <<"!", "=">>, <<"&", "&">>, <<"|", "|">>, <<"?", "?">>,
      <<"+", "+">>, <<"-", "-">>, <<"+", "=">>, <<"-", "=">>, <<"*", "=">>,
      <<"/", "=">>, <<"%", "=">>, <<"*", "*">>, <<"<", "<">>, <<">", ">">>,
      <<"=", ">">>, <<"?", ".">>, <<"&", "=">>, <<"|", "=">>, <<"^", "=">>,
      <<"~">>, <<"!">>, <<"+">>, <<"-">>, <<"*">>, <<"/">>, <<"%">>, <<"&">>,
      <<"|">>, <<"^">>, <<"<">>, <<">">>, <<"=">>, <<"?">>, <<":">>
    >>

LowerLetters ==
    {"a", "b", "c", "d", "e", "f", "g", "h", "i", "j", "k", "l", "m",
     "n", "o", "p", "q", "r", "s", "t", "u", "v", "w", "x", "y", "z"}
UpperLetters ==
    {"A", "B", "C", "D", "E", "F", "G", "H", "I", "J", "K", "L", "M",
     "N", "O", "P", "Q", "R", "S", "T", "U", "V", "W", "X", "Y", "Z"}

Digits == {"0", "1", "2", "3", "4", "5", "6", "7", "8", "9"}

\* /[ \t\r\f\v]/
WhitespaceChars == {" ", "\t", "\r", "\f", VT}
\* /[a-zA-Z_$]/
IdentStartChars == LowerLetters \cup UpperLetters \cup {"_", "$"}
\* /[a-zA-Z0-9_$]/
IdentChars == IdentStartChars \cup Digits
\* /[0-9a-fA-F_]/, /[01_]/, /[0-7_]/, /[0-9_]/
HexDigitChars == Digits \cup {"a", "b", "c", "d", "e", "f",
                              "A", "B", "C", "D", "E", "F", "_"}
BinDigitChars == {"0", "1", "_"}
OctDigitChars == {"0", "1", "2", "3", "4", "5", "6", "7", "_"}
DecDigitChars == Digits \cup {"_"}
\* /[xXbBoO]/
RadixChars == {"x", "X", "b", "B", "o", "O"}
\* /[gimsuy]/
RegexFlagChars == {"g", "i", "m", "s", "u", "y"}

PUNCTUATION == {"{", "}", "(", ")", "[", "]", ";", ",", "."}

(***************************************************************************)
(* JavaScript string primitives.                                           *)
(***************************************************************************)
\* source[k]: the character at 0-based index k, or "" for undefined.
CharAt(src, k) == IF k >= 0 /\ k < Len(src) THEN src[k + 1] ELSE ""

\* (source[k] || ''), as the text it adds to a string.
CharOrEmpty(src, k) == IF k >= 0 /\ k < Len(src) THEN <<src[k + 1]>> ELSE <<>>

\* source.startsWith(op, k)
StartsWith(src, op, k) ==
    /\ k + Len(op) <= Len(src)
    /\ \A n \in 1..Len(op) : src[k + n] = op[n]

\* The number of consecutive characters of src from index k that are in S:
\* the loops `while (i < source.length && /[..]/.test(source[i]))`.
RECURSIVE RunLen(_, _, _)
RunLen(src, k, S) ==
    IF k < Len(src) /\ src[k + 1] \in S THEN 1 + RunLen(src, k + 1, S) ELSE 0

\* The characters of src at indices k .. k + n - 1.
Slice(src, k, n) == SubSeq(src, k + 1, k + n)

(***************************************************************************)
(* Tokens.                                                                 *)
(***************************************************************************)
Tok(type, value, tLine, tCol) ==
    [type |-> type, value |-> value, line |-> tLine, col |-> tCol]

\* lastSignificant = null
NoToken == [type |-> "null", value |-> <<>>, line |-> 0, col |-> 0]

ValueKeywords ==
    {<<"t", "h", "i", "s">>, <<"t", "r", "u", "e">>,
     <<"f", "a", "l", "s", "e">>, <<"n", "u", "l", "l">>,
     <<"u", "n", "d", "e", "f", "i", "n", "e", "d">>}

isRegexContextNoValueKeywords(last) ==
    IF last = NoToken THEN TRUE
    ELSE IF last.type \in {"number", "string", "template", "regex"} THEN FALSE
    ELSE IF last.type = "identifier" THEN FALSE
    ELSE IF last.type = "punctuation" /\ last.value \in {<<")">>, <<"]">>, <<"}">>}
         THEN FALSE
    ELSE TRUE

\* A slash after a number starts a regex.
isRegexContextAfterNumber(last) ==
    IF last = NoToken THEN TRUE
    ELSE IF last.type \in {"string", "template", "regex"} THEN FALSE
    ELSE IF last.type = "identifier" THEN FALSE
    ELSE IF last.type = "keyword" /\ last.value \in ValueKeywords THEN FALSE
    ELSE IF last.type = "punctuation" /\ last.value \in {<<")">>, <<"]">>, <<"}">>}
         THEN FALSE
    ELSE TRUE

isRegexContext(last) ==
    IF last = NoToken THEN TRUE
    ELSE IF last.type \in {"number", "string", "template", "regex"} THEN FALSE
    ELSE IF last.type = "identifier" THEN FALSE
    ELSE IF last.type = "keyword" /\ last.value \in ValueKeywords THEN FALSE
    ELSE IF last.type = "punctuation" /\ last.value \in {<<")">>, <<"]">>, <<"}">>}
         THEN FALSE
    ELSE TRUE

(***************************************************************************)
(* The branches of tokenize's main loop.  Each operator is the body of one *)
(* branch: from the cursor (k, ln, cl) at the branch's first character it  *)
(* gives the cursor after the branch and the text s of the token.          *)
(***************************************************************************)
Cur(k, ln, cl, s) == [i |-> k, line |-> ln, col |-> cl, s |-> s]

\* Whitespace: consumed, no token.
ScanWhitespaceRun(src, k, ln, cl) ==
    LET n == RunLen(src, k, WhitespaceChars)
    IN Cur(k + n, ln, cl + n, Slice(src, k, n))

\* A line break: consumed, no token.
ScanNewlineChar(src, k, ln, cl) == Cur(k + 1, ln + 1, 1, <<>>)

\* Single-line comment: up to, not including, the line break.
ScanLineComment(src, k, ln, cl) ==
    LET n == RunLen(src, k, {c \in {src[m] : m \in 1..Len(src)} : c # NL})
    IN Cur(k + n, ln, cl + n, Slice(src, k, n))

RECURSIVE BlockCommentLoop(_, _, _, _, _)
BlockCommentLoop(src, k, ln, cl, s) ==
    IF k < Len(src) /\ ~(CharAt(src, k) = "*" /\ CharAt(src, k + 1) = "/")
    THEN IF CharAt(src, k) = NL
         THEN BlockCommentLoop(src, k + 1, ln + 1, 1, s \o <<NL>>)
         ELSE BlockCommentLoop(src, k + 1, ln, cl + 1, s \o <<CharAt(src, k)>>)
    ELSE Cur(k, ln, cl, s)

\* Multi-line comment: an unterminated one runs to the end of the input.
ScanBlockComment(src, k, ln, cl) ==
    LET r == BlockCommentLoop(src, k + 2, ln, cl + 2, <<"/", "*">>)
    IN IF r.i < Len(src)
       THEN Cur(r.i + 2, r.line, r.col + 2, r.s \o <<"*", "/">>)
       ELSE r

RECURSIVE TemplateLoop(_, _, _, _, _, _)
TemplateLoop(src, k, ln, cl, depth, s) ==
    IF k >= Len(src) THEN Cur(k, ln, cl, s)
    ELSE LET c == CharAt(src, k) IN
      IF c = BS
      THEN IF CharAt(src, k + 1) = NL
           THEN TemplateLoop(src, k + 2, ln + 1, 1, depth,
                             s \o <<c>> \o CharOrEmpty(src, k + 1))
           ELSE TemplateLoop(src, k + 2, ln, cl + 2, depth,
                             s \o <<c>> \o CharOrEmpty(src, k + 1))
      ELSE IF c = "$" /\ CharAt(src, k + 1) = "{"
      THEN TemplateLoop(src, k + 2, ln, cl + 2, depth + 1, s \o <<"$", "{">>)
      ELSE IF c = "{" /\ depth > 0
      THEN TemplateLoop(src, k + 1, ln, cl + 1, depth + 1, s \o <<c>>)
      ELSE IF c = "}" /\ depth > 0
      THEN TemplateLoop(src, k + 1, ln, cl + 1, depth - 1, s \o <<c>>)
      ELSE IF c = BT /\ depth = 0
      THEN Cur(k + 1, ln, cl + 1, s \o <<BT>>)
      ELSE IF c = NL
      THEN TemplateLoop(src, k + 1, ln + 1, 1, depth, s \o <<c>>)
      ELSE TemplateLoop(src, k + 1, ln, cl + 1, depth, s \o <<c>>)

\* Template literal.
ScanTemplate(src, k, ln, cl) == TemplateLoop(src, k + 1, ln, cl + 1, 0, <<BT>>)

StringLoopKeepsLineBreakOut(src, q, k, ln, cl, s) == Cur(k + 1, ln + 1, 1, s)

\* The unterminated-string exit: the line break is consumed into the token.
StringLineBreak(src, q, k, ln, cl, s) == Cur(k + 1, ln + 1, 1, s \o <<NL>>)

\* The string loop with a backslash that consumes nothing but itself.
RECURSIVE StringLoopEscapeAlone(_, _, _, _, _, _)
StringLoopEscapeAlone(src, q, k, ln, cl, s) ==
    IF k >= Len(src) THEN Cur(k, ln, cl, s)
    ELSE LET c == CharAt(src, k) IN
      IF c = BS
      THEN StringLoopEscapeAlone(src, q, k + 1, ln, cl + 1, s \o <<c>>)
      ELSE IF c = q THEN Cur(k + 1, ln, cl + 1, s \o <<c>>)
      ELSE IF c = NL THEN StringLineBreak(src, q, k, ln, cl, s)
      ELSE StringLoopEscapeAlone(src, q, k + 1, ln, cl + 1, s \o <<c>>)

RECURSIVE StringLoop(_, _, _, _, _, _)
StringLoop(src, q, k, ln, cl, s) ==
    IF k >= Len(src) THEN Cur(k, ln, cl, s)
    ELSE LET c == CharAt(src, k) IN
      IF c = BS
      THEN IF CharAt(src, k + 1) = NL
           THEN StringLoop(src, q, k + 2, ln + 1, 1,
                           s \o <<c>> \o CharOrEmpty(src, k + 1))
           ELSE StringLoop(src, q, k + 2, ln, cl + 2,
                           s \o <<c>> \o CharOrEmpty(src, k + 1))
      ELSE IF c = q THEN Cur(k + 1, ln, cl + 1, s \o <<c>>)
      ELSE IF c = NL THEN StringLineBreak(src, q, k, ln, cl, s)
      ELSE StringLoop(src, q, k + 1, ln, cl + 1, s \o <<c>>)

\* String literal, single or double quoted.
ScanString(src, k, ln, cl) ==
    StringLoop(src, CharAt(src, k), k + 1, ln, cl + 1, <<CharAt(src, k)>>)

\* Number literal with a radix prefix: 0x.., 0b.., 0o..
ScanRadixNumber(src, k, ln, cl) ==
    LET p == CharAt(src, k + 1)
        digits == IF p \in {"x", "X"} THEN HexDigitChars
                  ELSE IF p \in {"b", "B"} THEN BinDigitChars
                  ELSE OctDigitChars
        n == RunLen(src, k + 2, digits)
    IN Cur(k + 2 + n, ln, cl + 2 + n, Slice(src, k, 2 + n))

\* Decimal number literal: digits, fraction, exponent, BigInt suffix.
ScanDecimalNumber(src, k, ln, cl) ==
    LET n1 == RunLen(src, k, DecDigitChars)
        k1 == k + n1
        k2 == IF CharAt(src, k1) = "."
              THEN k1 + 1 + RunLen(src, k1 + 1, DecDigitChars)
              ELSE k1
        k3 == IF CharAt(src, k2) \in {"e", "E"}
              THEN LET ks == IF CharAt(src, k2 + 1) \in {"+", "-"}
                             THEN k2 + 2 ELSE k2 + 1
                   IN ks + RunLen(src, ks, Digits)
              ELSE k2
        k4 == IF CharAt(src, k3) = "n" THEN k3 + 1 ELSE k3
    IN Cur(k4, ln, cl + (k4 - k), Slice(src, k, k4 - k))

ScanNumber(src, k, ln, cl) ==
    IF CharAt(src, k) = "0" /\ CharAt(src, k + 1) \in RadixChars
    THEN ScanRadixNumber(src, k, ln, cl)
    ELSE ScanDecimalNumber(src, k, ln, cl)

\* Identifier or keyword.
ScanWord(src, k, ln, cl) ==
    LET n == RunLen(src, k, IdentChars)
    IN Cur(k + n, ln, cl + n, Slice(src, k, n))

RECURSIVE RegexLoop(_, _, _, _, _, _)
RegexLoop(src, k, ln, cl, inCharClass, s) ==
    IF k >= Len(src) THEN Cur(k, ln, cl, s)
    ELSE LET c == CharAt(src, k) IN
      IF c = BS
      THEN RegexLoop(src, k + 2, ln, cl + 2, inCharClass,
                     s \o <<c>> \o CharOrEmpty(src, k + 1))
      ELSE IF c = "[" THEN RegexLoop(src, k + 1, ln, cl + 1, TRUE, s \o <<c>>)
      ELSE IF c = "]" THEN RegexLoop(src, k + 1, ln, cl + 1, FALSE, s \o <<c>>)
      ELSE IF c = "/" /\ ~inCharClass THEN Cur(k + 1, ln, cl + 1, s \o <<c>>)
      ELSE IF c = NL THEN Cur(k, ln, cl, s)
      ELSE RegexLoop(src, k + 1, ln, cl + 1, inCharClass, s \o <<c>>)

\* Regex literal: the body, then the flags.
ScanRegex(src, k, ln, cl) ==
    LET r == RegexLoop(src, k + 1, ln, cl + 1, FALSE, <<"/">>)
        n == RunLen(src, r.i, RegexFlagChars)
    IN Cur(r.i + n, r.line, r.col + n, r.s \o Slice(src, r.i, n))

\* The index in OPERATORS of the last operator the input starts with at k.
MatchedOperatorLast(src, k) ==
    LET hits == {n \in 1..Len(OPERATORS) : StartsWith(src, OPERATORS[n], k)}
    IN IF hits = {} THEN 0 ELSE CHOOSE n \in hits : \A m \in hits : n >= m

\* The index in OPERATORS of the first operator the input starts with at k,
\* or 0: `for (const op of OPERATORS) if (source.startsWith(op, i))`.
MatchedOperator(src, k) ==
    LET hits == {n \in 1..Len(OPERATORS) : StartsWith(src, OPERATORS[n], k)}
    IN IF hits = {} THEN 0 ELSE CHOOSE n \in hits : \A m \in hits : n <= m

ScanOperator(src, k, ln, cl) ==
    LET op == OPERATORS[MatchedOperator(src, k)]
    IN Cur(k + Len(op), ln, cl + Len(op), op)

\* Punctuation, and the unknown character: one character.
ScanOneCharStalls(src, k, ln, cl) == Cur(k, ln, cl, <<CharAt(src, k)>>)

ScanOneChar(src, k, ln, cl) == Cur(k + 1, ln, cl + 1, <<CharAt(src, k)>>)

ScanPunctuation(src, k, ln, cl) == ScanOneChar(src, k, ln, cl)

ScanUnknown(src, k, ln, cl) == ScanOneChar(src, k, ln, cl)

(***************************************************************************)
(* The branch the main loop takes at index k: the first test that passes.  *)
(***************************************************************************)
Branch(src, k, last) ==
    LET ch == CharAt(src, k) IN
    IF ch \in WhitespaceChars THEN "whitespace"
    ELSE IF ch = NL THEN "newline"
    ELSE IF ch = "/" /\ CharAt(src, k + 1) = "/" THEN "lineComment"
    ELSE IF ch = "/" /\ CharAt(src, k + 1) = "*" THEN "blockComment"
    ELSE IF ch = BT THEN "template"
    ELSE IF ch = DQ \/ ch = SQ THEN "string"
    ELSE IF ch \in Digits \/ (ch = "." /\ CharAt(src, k + 1) \in Digits)
         THEN "number"
    ELSE IF ch \in IdentStartChars THEN "word"
    ELSE IF ch = "/" /\ isRegexContext(last) THEN "regex"
    ELSE IF MatchedOperator(src, k) # 0 THEN "operator"
    ELSE IF ch \in PUNCTUATION THEN "punctuation"
    ELSE "unknown"

\* The cursor and token text after the branch taken at (k, ln, cl).
Scan(src, br, k, ln, cl) ==
    CASE br = "whitespace" -> ScanWhitespaceRun(src, k, ln, cl)
      [] br = "newline" -> ScanNewlineChar(src, k, ln, cl)
      [] br = "lineComment" -> ScanLineComment(src, k, ln, cl)
      [] br = "blockComment" -> ScanBlockComment(src, k, ln, cl)
      [] br = "template" -> ScanTemplate(src, k, ln, cl)
      [] br = "string" -> ScanString(src, k, ln, cl)
      [] br = "number" -> ScanNumber(src, k, ln, cl)
      [] br = "word" -> ScanWord(src, k, ln, cl)
      [] br = "regex" -> ScanRegex(src, k, ln, cl)
      [] br = "operator" -> ScanOperator(src, k, ln, cl)
      [] br = "punctuation" -> ScanPunctuation(src, k, ln, cl)
      [] OTHER -> ScanUnknown(src, k, ln, cl)

\* The type of the token a branch adds ("" for none).
TokenType(br, s) ==
    CASE br \in {"whitespace", "newline"} -> ""
      [] br \in {"lineComment", "blockComment"} -> "comment"
      [] br = "word" -> IF s \in KEYWORDS THEN "keyword" ELSE "identifier"
      [] OTHER -> br

\* Every token becomes the last significant one.
NextSignificantAny(last, tok) == tok

\* addToken: lastSignificant follows every token but comments.
NextSignificant(last, tok) == IF tok.type # "comment" THEN tok ELSE last

\* One iteration of `while (i < source.length)` from scanner state st.
ScanStep(src, st) ==
    LET br == Branch(src, st.i, st.lastSignificant)
        r == Scan(src, br, st.i, st.line, st.col)
        type == TokenType(br, r.s)
        tok == Tok(type, r.s, st.line, st.col)
    IN [i |-> r.i, line |-> r.line, col |-> r.col,
        tokens |-> IF type = "" THEN st.tokens ELSE Append(st.tokens, tok),
        lastSignificant |-> IF type = "" THEN st.lastSignificant
                            ELSE NextSignificant(st.lastSignificant, tok)]

\* The locals of a call that are not declared anew all: lastSignificant
\* keeps the value the previous call left.
ScanStartKeepsLast ==
    [i |-> 0, line |-> 1, col |-> 1, tokens |-> <<>>,
     lastSignificant |-> lastSignificant]

\* The locals tokenize declares at its entry.
ScanStart ==
    [i |-> 0, line |-> 1, col |-> 1, tokens |-> <<>>, lastSignificant |-> NoToken]

RECURSIVE TokenizeFrom(_, _)
TokenizeFrom(src, st) ==
    IF st.i < Len(src) THEN TokenizeFrom(src, ScanStep(src, st)) ELSE st.tokens

\* tokenize(source)
Tokenize(src) == TokenizeFrom(src, ScanStart)


(***************************************************************************)
(* Values of the other functions' state before they are called.            *)
(***************************************************************************)
\* `new Map()`: the keys in insertion order, and each key's Set as the
\* sequence of its members in insertion order.
EmptyGraph == [nodes |-> <<>>, edges |-> <<>>]
\* A JavaScript value is a record of its typeof and the value.
JsUndefined == [type |-> "undefined"]
NoOptions == [given |-> FALSE]
NoResult == [outcome |-> "none"]
(***************************************************************************)
(* Source texts the tokenizer is run on: every concatenation of at most    *)
(* MaxFrags fragments, and the sources of the repository's own tests.      *)
(***************************************************************************)
TokFragments ==
    {<<" ">>, <<NL>>, <<"/">>, <<"*">>, <<DQ>>, <<BS>>, <<BT>>, <<"(">>,
     <<")">>, <<";">>, <<"=">>, <<"a">>, <<"1">>, <<"#">>,
     <<"t", "h", "i", "s">>, <<"i", "f">>}

RECURSIVE Flatten(_)
Flatten(ss) == IF ss = <<>> THEN <<>> ELSE Head(ss) \o Flatten(Tail(ss))

SeqsUpTo(S, n) == UNION {[1..m -> S] : m \in 0..n}

\* code-analyzer.test.js, 'disambiguates regex from division' (the spec's example)
SrcRegexVsDivision ==
    <<
      "c", "o", "n", "s", "t", " ", "r", "e", " ", "=", " ", "/", "a", "b",
      "c", "/", "g", ";", " ", "c", "o", "n", "s", "t", " ", "x", " ", "=",
      " ", "1", "0", " ", "/", " ", "2", ";"
    >>

\* code-analyzer.test.js, 'disambiguates regex from division', third line
SrcRegexInCondition ==
    <<
      "i", "f", " ", "(", "/", "t", "e", "s", "t", "/", ".", "t", "e", "s",
      "t", "(", "s", ")", ")", " ", "{", "}"
    >>

\* A division after this, and a regex literal directly after a semicolon
SrcRegexAfterSemicolon ==
    <<
      "x", " ", "=", " ", "t", "h", "i", "s", " ", "/", " ", "2", ";", "/",
      "b", "/", "g"
    >>

\* A division after a comment that spans two lines
SrcDivisionAfterComment ==
    <<
      "a", " ", "/", "*", " ", "c", NL, " ", "*", "/", " ", "/", " ", "b"
    >>

\* code-analyzer.test.js, 'tokenizes string with escape sequences', then an unknown character
SrcEscapes ==
    <<
      "\"", "l", "\\", "n", "\"", " ", "'", "i", "t", "\\", "'", "s", "'",
      " ", "#", "x"
    >>

\* code-analyzer.test.js, 'tokenizes nested template literal expressions'
SrcNestedTemplate ==
    <<
      BT, "$", "{", "a", " ", "?", " ", BT, "i", " ", "$", "{", "b", "}", BT,
      " ", ":", " ", "c", "}", BT
    >>

\* code-analyzer.test.js, 'tokenizes numbers' and 'handles BigInt literal'
SrcNumbers ==
    <<
      "4", "2", " ", "3", ".", "1", "4", " ", "0", "x", "F", "F", " ", "0",
      "b", "1", "0", " ", "0", "o", "7", " ", "1", "e", "+", "5", " ", "9",
      "n", " ", ".", "5"
    >>

\* code-analyzer.test.js, 'tokenizes operators'
SrcOperators ==
    <<
      "a", " ", "=", "=", "=", " ", "b", " ", "&", "&", " ", "c", " ", "!",
      "=", "=", " ", "d", " ", "|", "|", " ", "e", " ", ">", "=", " ", "f",
      " ", "?", ".", " ", "g", " ", ".", ".", ".", " ", "h"
    >>

\* code-analyzer.test.js, 'tokenizes single-line comments'
SrcLineComment ==
    <<
      "/", "/", " ", "c", NL, "c", "o", "n", "s", "t", " ", "x", " ", "=",
      " ", "[", "1", ",", " ", "2", "]", ";"
    >>

\* A string that its line's end closes, between other tokens
SrcUnterminatedString ==
    <<
      "a", " ", "=", " ", "\"", "b", NL, " ", "c"
    >>

\* A regex literal with an escaped line break, then an identifier
SrcRegexEscapedLineBreak ==
    <<
      "/", BS, NL, "/", " ", "a"
    >>

\* A template literal whose embedded expression is a template literal
\* with a closing brace as its text
SrcTemplateBraceInNested ==
    <<
      BT, "$", "{", BT, "}", BT, "}", BT
    >>

\* The longest operator and an arrow
SrcLongOperators ==
    <<
      "a", " ", ">", ">", ">", "=", " ", "b", "=", ">", "c"
    >>

TokExamples ==
    {SrcRegexVsDivision, SrcRegexInCondition, SrcRegexAfterSemicolon,
     SrcDivisionAfterComment, SrcEscapes, SrcNestedTemplate, SrcNumbers,
     SrcOperators, SrcLineComment, SrcUnterminatedString,
     SrcRegexEscapedLineBreak, SrcTemplateBraceInNested, SrcLongOperators}

TokSources ==
    {Flatten(fs) : fs \in SeqsUpTo(TokFragments, MaxFrags)} \cup TokExamples

(***************************************************************************)
(* The analyzers are idle while the tokenizer runs, and the other way      *)
(* round.                                                                  *)
(***************************************************************************)
TokIdle ==
    /\ source = <<>> /\ i = 0 /\ line = 1 /\ col = 1 /\ tokens = <<>>
    /\ lastSignificant = NoToken /\ pc = "idle"

CxIdle ==
    /\ cxTokens = <<>> /\ cxI = 0 /\ fnDefs = <<>> /\ fnK = 0
    /\ results = <<>> /\ cxPc = "idle"

DcIdle ==
    /\ dcTokens = <<>> /\ dcLines = <<>> /\ dcI = 0
    /\ issues = <<>> /\ dcPc = "idle"

ImIdle ==
    /\ imTokens = <<>> /\ imFile = <<>> /\ imI = 0 /\ imports = <<>>
    /\ imPc = "idle"

BgIdle == fileData = <<>> /\ graph = EmptyGraph /\ bgI = 0 /\ bgPc = "idle"

CdIdle ==
    /\ cdGraph = EmptyGraph /\ cycles = <<>> /\ visited = {} /\ inStack = {}
    /\ path = <<>> /\ frames = <<>> /\ cdOuter = 0 /\ cdPc = "idle"

AnIdle ==
    /\ anSource = JsUndefined /\ anOptions = NoOptions /\ anResult = NoResult
    /\ anPc = "idle"

(***************************************************************************)
(* tokenize(source) as a state machine: the call, one action per branch   *)
(* of the main loop, and the return.                                       *)
(***************************************************************************)
RpIdle == rpPc = "idle" /\ rpLog = <<>>

\* No queue has been created.
QuIdle ==
    /\ quConcurrency = 1 /\ quTasks = <<>> /\ quRunning = 0
    /\ quPaused = FALSE /\ quDrainResolvers = <<>> /\ quTask = <<>>
    /\ quDrains = <<>> /\ quPc = "idle"

\* No debounced function has been created.
DbIdle ==
    /\ dbLeading = FALSE /\ dbTimer = [set |-> FALSE, win |-> 0]
    /\ dbWindow = 0 /\ dbWins = <<>> /\ dbCalls = <<>> /\ dbInvs = <<>> /\ dbPc = "idle"

\* pool has not been called.
PlIdle ==
    /\ plKinds = <<>> /\ plConcurrency = 1 /\ plSignal = "none"
    /\ plTaskIndex = 0 /\ plCompleted = 0 /\ plResults = <<>>
    /\ plErrors = <<>> /\ plWorkers = <<>> /\ plTask = <<>>
    /\ plInvoked = <<>> /\ plOutcome = NoResult
    /\ plPc = "idle" /\ plOnProgress = "none" /\ plCrashes = <<>>

\* No runner has been created.
RnIdle ==
    /\ rnScript = <<>> /\ rnSuites = <<>> /\ rnTests = <<>> /\ rnCurrent = 0
    /\ rnHasOnly = FALSE /\ rnAgenda = <<>> /\ rnLog = <<>> /\ rnThrows = 0
    /\ rnStats = [passed |-> 0, failed |-> 0, skipped |-> 0]
    /\ rnPc = "idle"

AfIdle ==
    afFiles = <<>> /\ afTokenized = <<>> /\ afResults = <<>> /\ afPc = "idle"

Init ==
    /\ TokIdle /\ CxIdle /\ DcIdle /\ ImIdle /\ BgIdle /\ CdIdle /\ AnIdle
    /\ RpIdle /\ QuIdle /\ DbIdle /\ PlIdle /\ RnIdle /\ AfIdle

\* The call tokenize(source): the closure's variables are initialised.
TokCall ==
    /\ NoCall
    /\ source' \in TokSources
    /\ i' = 0 /\ line' = 1 /\ col' = 1 /\ tokens' = <<>>
    /\ lastSignificant' = NoToken /\ pc' = "scan"
    /\ UNCHANGED <<tokOthers>>

ScanState ==
    [i |-> i, line |-> line, col |-> col, tokens |-> tokens,
     lastSignificant |-> lastSignificant]

\* One iteration of the main loop, through the branch br: the first test
\* that passes is br's.
TokBranch(br) ==
    /\ pc = "scan" /\ i < Len(source)
    /\ Branch(source, i, lastSignificant) = br
    /\ LET st == ScanStep(source, ScanState)
       IN /\ i' = st.i /\ line' = st.line /\ col' = st.col
          /\ tokens' = st.tokens /\ lastSignificant' = st.lastSignificant
    /\ UNCHANGED <<source, pc, tokOthers>>

TokWhitespace == TokBranch("whitespace")
TokNewline == TokBranch("newline")
TokLineComment == TokBranch("lineComment")
TokBlockComment == TokBranch("blockComment")
TokTemplate == TokBranch("template")
TokString == TokBranch("string")
TokNumber == TokBranch("number")
TokWord == TokBranch("word")
TokRegex == TokBranch("regex")
TokOperator == TokBranch("operator")
TokPunctuation == TokBranch("punctuation")
TokUnknown == TokBranch("unknown")

\* `return tokens`, once the loop condition fails.
TokReturn ==
    /\ pc = "scan" /\ i >= Len(source)
    /\ pc' = "done"
    /\ UNCHANGED <<source, i, line, col, tokens, lastSignificant, tokOthers>>

TokNext ==
    \/ TokCall
    \/ TokWhitespace \/ TokNewline \/ TokLineComment \/ TokBlockComment
    \/ TokTemplate \/ TokString \/ TokNumber \/ TokWord \/ TokRegex
    \/ TokOperator \/ TokPunctuation \/ TokUnknown \/ TokReturn

SpecTok == Init /\ [][TokNext]_vars

(***************************************************************************)
(* Properties of the tokenizer.                                            *)
(***************************************************************************)
\* The characters that start a lexeme or are skipped: whitespace, a quote, a
\* digit, an identifier start, the first character of an operator,
\* punctuation.  Every other character starts no recognised lexeme.
LexemeStartChars ==
    WhitespaceChars \cup {NL, BT, DQ, SQ} \cup Digits \cup IdentStartChars
    \cup PUNCTUATION \cup {OPERATORS[n][1] : n \in 1..Len(OPERATORS)}

\* C1: for every input tokenize terminates and returns a token array.  Each
\* iteration of the loop moves the cursor forward and never further than one
\* past the end of the input, so the loop runs at most Len(source) times; a
\* character that starts no lexeme becomes one single-character token of type
\* unknown with the cursor just after it; once the cursor has reached the end
\* the function returns the tokens it has.
C1_TokenizeTotal ==
    [][/\ (pc = "scan" /\ i < Len(source)) =>
            /\ i' > i /\ i' <= Len(source) + 1 /\ pc' = "scan"
            /\ Len(tokens') \in {Len(tokens), Len(tokens) + 1}
            /\ (source[i + 1] \notin LexemeStartChars =>
                  /\ tokens' = Append(tokens,
                                      Tok("unknown", <<source[i + 1]>>, line, col))
                  /\ i' = i + 1)
       /\ (pc = "scan" /\ i >= Len(source)) =>
            (pc' = "done" /\ tokens' = tokens)]_vars

\* The tokenizer returned after it scanned past an unknown character and
\* closed an unterminated string at the end of the input.
C1_Witness ==
    /\ pc = "done"
    /\ \E k \in 1..Len(tokens) : tokens[k].type = "unknown" /\ k < Len(tokens)
    /\ \E k \in 1..Len(tokens) :
          /\ tokens[k].type = "string"
          /\ Len(tokens[k].value) = 1

\* The last token before tokens[k] that is not a comment, or NoToken.
PrevSignificant(ts, k) ==
    LET before == {m \in 1..(k - 1) : ts[m].type # "comment"}
    IN IF before = {} THEN NoToken
       ELSE ts[CHOOSE m \in before : \A n \in before : n <= m]

\* The tokens that a `/` which begins no comment started.
SlashTokens(ts) ==
    {k \in 1..Len(ts) : ts[k].value[1] = "/" /\ ts[k].type # "comment"}

\* The contexts C2 names: no token yet, an operator, an opening bracket, a
\* keyword that is not this/true/false/null/undefined.
ClaimedRegexContext(last) ==
    \/ last = NoToken
    \/ last.type = "operator"
    \/ last.type = "punctuation" /\ last.value \in {<<"(">>, <<"[">>, <<"{">>}
    \/ last.type = "keyword" /\ last.value \notin ValueKeywords

\* C2 as stated: a `/` that begins no comment is a regex literal exactly in
\* the contexts ClaimedRegexContext, and a division operator otherwise.
C2_AsStated ==
    \A k \in SlashTokens(tokens) :
        IF ClaimedRegexContext(PrevSignificant(tokens, k))
        THEN tokens[k].type = "regex"
        ELSE tokens[k].type = "operator"

\* The contexts of the code: those of C2, and also every punctuation token
\* that is not a closing bracket (`;`, `,`, `.`) and an unknown character.
AmendedRegexContext(last) ==
    \/ ClaimedRegexContext(last)
    \/ last.type = "punctuation" /\ last.value \notin {<<")">>, <<"]">>, <<"}">>}
    \/ last.type = "unknown"

\* C2, amended: a `/` that begins no comment is a regex literal exactly when
\* the last significant token is absent, an operator, a keyword that is not
\* this/true/false/null/undefined, a punctuation token other than `)`, `]`,
\* `}`, or an unknown character; otherwise it is a division operator (`/` or
\* `/=`).
C2_RegexContext ==
    \A k \in SlashTokens(tokens) :
        IF AmendedRegexContext(PrevSignificant(tokens, k))
        THEN tokens[k].type = "regex"
        ELSE /\ tokens[k].type = "operator"
             /\ tokens[k].value \in {<<"/">>, <<"/", "=">>}

\* A division after the keyword this and a regex literal after a semicolon,
\* in one token array.
C2_Witness ==
    /\ pc = "done"
    /\ \E k \in 2..Len(tokens) :
          /\ tokens[k].type = "operator" /\ tokens[k].value = <<"/">>
          /\ tokens[k - 1].value = <<"t", "h", "i", "s">>
    /\ \E k \in 2..Len(tokens) :
          /\ tokens[k].type = "regex" /\ tokens[k - 1].value = <<";">>

Min(a, b) == IF a <= b THEN a ELSE b

\* Position p lies before position q in the source: (line, col) order.
Before(p, q) == p.line < q.line \/ (p.line = q.line /\ p.col < q.col)

\* C3: tokens come in strictly increasing source position and their values,
\* in order, are the input without the whitespace between tokens.  Each
\* iteration of the loop consumes the characters from i up to i': either
\* they are all whitespace and no token is added, or exactly one token is
\* added, its value is exactly those characters, it is recorded at the
\* cursor, and it lies after the token before it.
C3_TokensPartitionSource ==
    [][(pc = "scan" /\ i < Len(source)) =>
        LET span == SubSeq(source, i + 1, Min(i', Len(source)))
        IN \/ /\ tokens' = tokens
              /\ \A n \in 1..Len(span) : span[n] \in WhitespaceChars \cup {NL}
           \/ /\ Len(tokens') = Len(tokens) + 1
              /\ SubSeq(tokens', 1, Len(tokens)) = tokens
              /\ tokens'[Len(tokens')].value = span
              /\ tokens'[Len(tokens')].line = line
              /\ tokens'[Len(tokens')].col = col
              /\ tokens # <<>> =>
                    Before(tokens[Len(tokens)], tokens'[Len(tokens')])]_vars

\* The tokenizer returned at least two tokens, one of them a string that
\* ends with the line break that closed it, from a source with whitespace
\* between tokens.
C3_Witness ==
    /\ pc = "done"
    /\ Len(tokens) >= 2
    /\ \E k \in 1..Len(tokens) :
          /\ tokens[k].type = "string"
          /\ tokens[k].value[Len(tokens[k].value)] = NL
    /\ Len(Flatten([k \in 1..Len(tokens) |-> tokens[k].value])) < Len(source)

(***************************************************************************)
(* Token arrays.  TokAt(ts, k) is tokens[k] for a 0-based index k.         *)
(***************************************************************************)
TokAt(ts, k) == ts[k + 1]

IsPunct(t, c) == t.type = "punctuation" /\ t.value = <<c>>
IsKeyword(t, w) == t.type = "keyword" /\ t.value = w
IsOperator(t, w) == t.type = "operator" /\ t.value = w

KwFunction == <<"f", "u", "n", "c", "t", "i", "o", "n">>
KwIf == <<"i", "f">>
KwElse == <<"e", "l", "s", "e">>
KwFor == <<"f", "o", "r">>
KwWhile == <<"w", "h", "i", "l", "e">>
KwDo == <<"d", "o">>
KwCase == <<"c", "a", "s", "e">>
KwCatch == <<"c", "a", "t", "c", "h">>
KwDefault == <<"d", "e", "f", "a", "u", "l", "t">>
KwSwitch == <<"s", "w", "i", "t", "c", "h">>
KwReturn == <<"r", "e", "t", "u", "r", "n">>
KwThrow == <<"t", "h", "r", "o", "w">>
KwBreak == <<"b", "r", "e", "a", "k">>
KwContinue == <<"c", "o", "n", "t", "i", "n", "u", "e">>
AnonymousName == <<"(", "a", "n", "o", "n", "y", "m", "o", "u", "s", ")">>
ArrowName == <<"(", "a", "r", "r", "o", "w", ")">>

\* The look-ahead without the loop over comments: index j itself.
SkipNoComments(ts, j) == j

\* The first index from j on whose token is not a comment (Len(ts) if none):
\* `while (j < tokens.length && tokens[j].type === 'comment') j++`.
RECURSIVE SkipComments(_, _)
SkipComments(ts, j) ==
    IF j < Len(ts) /\ TokAt(ts, j).type = "comment"
    THEN SkipComments(ts, j + 1) ELSE j

\* A token array laid out as source text: a lexeme is a <<type, value>> pair,
\* lexemes are one space apart and a line ends after `;`, `{` and `}`.
RECURSIVE LayOutFrom(_, _, _)
LayOutFrom(lexemes, ln, cl) ==
    IF lexemes = <<>> THEN <<>>
    ELSE LET lx == Head(lexemes)
             t == Tok(lx[1], lx[2], ln, cl)
         IN IF IsPunct(t, ";") \/ IsPunct(t, "{") \/ IsPunct(t, "}")
            THEN <<t>> \o LayOutFrom(Tail(lexemes), ln + 1, 1)
            ELSE <<t>> \o LayOutFrom(Tail(lexemes), ln, cl + Len(lx[2]) + 1)

LayOut(lexemes) == LayOutFrom(lexemes, 1, 1)

\* The source text of that layout: tokenize gives LayOut(lexemes) for it.
RECURSIVE LayOutText(_)
LayOutText(lexemes) ==
    IF lexemes = <<>> THEN <<>>
    ELSE LET lx == Head(lexemes)
             rest == Tail(lexemes)
         IN lx[2]
            \o (IF rest = <<>> THEN <<>>
                ELSE IF lx[1] = "punctuation" /\ lx[2] \in {<<";">>, <<"{">>, <<"}">>}
                THEN <<NL>> ELSE <<" ">>)
            \o LayOutText(rest)

(***************************************************************************)
(* complexity.js                                                           *)
(***************************************************************************)
\* The branch keywords with `default` among them.
BranchKeywordsWithDefault ==
    {KwIf, KwElse, KwFor, KwWhile, KwDo, KwCase, KwCatch, KwDefault}

BRANCH_KEYWORDS == {KwIf, KwElse, KwFor, KwWhile, KwDo, KwCase, KwCatch}

RECURSIVE FindMatchingParenLoop(_, _, _)
FindMatchingParenLoop(ts, k, depth) ==
    IF k >= Len(ts) THEN -1
    ELSE LET t == TokAt(ts, k)
             d == IF IsPunct(t, "(") THEN depth + 1 ELSE depth
         IN IF IsPunct(t, ")")
            THEN IF d - 1 = 0 THEN k ELSE FindMatchingParenLoop(ts, k + 1, d - 1)
            ELSE FindMatchingParenLoop(ts, k + 1, d)

\* A findMatchingParen that does not skip the parameter list.
findMatchingParenStaysAtOpen(ts, openIdx) == openIdx

\* The index of the `)` that matches the `(` at openIdx, or -1.
findMatchingParen(ts, openIdx) == FindMatchingParenLoop(ts, openIdx, 0)

\* The first index from j on whose token is `(` (Len(ts) if none).
RECURSIVE FindOpenParen(_, _)
FindOpenParen(ts, j) ==
    IF j < Len(ts) /\ ~IsPunct(TokAt(ts, j), "(")
    THEN FindOpenParen(ts, j + 1) ELSE j

FnRecord(name, ln, tokenIdx, bodyOpenIdx) ==
    [name |-> name, line |-> ln, tokenIdx |-> tokenIdx,
     bodyOpenIdx |-> bodyOpenIdx]

\* discoverFunctions at a `function` keyword at index k: the records pushed.
DiscoverFunctionKeyword(ts, k) ==
    LET j0 == SkipComments(ts, k + 1)
        named == j0 < Len(ts) /\ TokAt(ts, j0).type = "identifier"
        name == IF named THEN TokAt(ts, j0).value ELSE AnonymousName
        j1 == IF named THEN SkipComments(ts, j0 + 1) ELSE j0
        j == FindOpenParen(ts, j1)
    IN IF j >= Len(ts) THEN <<>>
       ELSE LET closeParenIdx == findMatchingParen(ts, j)
            IN IF closeParenIdx = -1 THEN <<>>
               ELSE LET bodyIdx == SkipComments(ts, closeParenIdx + 1)
                    IN IF bodyIdx < Len(ts) /\ IsPunct(TokAt(ts, bodyIdx), "{")
                       THEN <<FnRecord(name, TokAt(ts, k).line, k, bodyIdx)>>
                       ELSE <<>>

\* The name an arrow at index k gets: the backward scan from b.
RECURSIVE ArrowNameFrom(_, _)
ArrowNameFrom(ts, b) ==
    IF b < 0 THEN ArrowName
    ELSE LET bt == TokAt(ts, b)
         IN IF bt.type = "comment" THEN ArrowNameFrom(ts, b - 1)
            ELSE IF bt.type = "identifier" THEN bt.value
            ELSE IF IsOperator(bt, <<"=">>) THEN ArrowNameFrom(ts, b - 1)
            ELSE ArrowName

\* discoverFunctions at an arrow `=>` at index k: the records pushed.
DiscoverArrow(ts, k) ==
    LET j == SkipComments(ts, k + 1)
    IN IF j < Len(ts) /\ IsPunct(TokAt(ts, j), "{")
       THEN <<FnRecord(ArrowNameFrom(ts, k - 1), TokAt(ts, k).line, k, j)>>
       ELSE <<>>

\* The index of the `}` that closes the `{` at k, or -1.
RECURSIVE FindBodyCloseLoop(_, _, _)
FindBodyCloseLoop(ts, k, depth2) ==
    IF k >= Len(ts) THEN -1
    ELSE LET t == TokAt(ts, k)
         IN IF IsPunct(t, "{") THEN FindBodyCloseLoop(ts, k + 1, depth2 + 1)
            ELSE IF IsPunct(t, "}")
            THEN IF depth2 - 1 = 0 THEN k
                 ELSE FindBodyCloseLoop(ts, k + 1, depth2 - 1)
            ELSE FindBodyCloseLoop(ts, k + 1, depth2)

\* bodyCloseIdx: the matching `}`, or the last token when there is none.
BodyCloseIdx(ts, bodyOpenIdx) ==
    LET r == FindBodyCloseLoop(ts, bodyOpenIdx, 0)
    IN IF r = -1 THEN Len(ts) - 1 ELSE r

\* An `else` that is counted whatever follows it.
ElseAlwaysCounts(ts, k) == TRUE

\* Whether the `else` at k is counted: not when the next token that is not a
\* comment is `if`.
ElseCounts(ts, k) ==
    LET j == SkipComments(ts, k + 1)
    IN ~(j < Len(ts) /\ IsKeyword(TokAt(ts, j), KwIf))

\* What the token at k adds to the complexity of the body it is walked in.
BranchCount(ts, k) ==
    LET t == TokAt(ts, k)
    IN IF t.type = "comment" THEN 0
       ELSE IF t.type = "keyword" /\ t.value \in BRANCH_KEYWORDS
       THEN IF t.value = KwElse
            THEN IF ElseCounts(ts, k) THEN 1 ELSE 0
            ELSE 1
       ELSE IF t.type = "operator"
       THEN (IF t.value \in {<<"&", "&">>, <<"|", "|">>, <<"?", "?">>}
             THEN 1 ELSE 0)
            + (IF t.value = <<"?">> THEN 1 ELSE 0)
       ELSE 0

\* The walk `for (let i = bodyOpenIdx + 1; i < bodyCloseIdx; i++)` from k.
RECURSIVE WalkBody(_, _, _)
WalkBody(ts, k, bodyCloseIdx) ==
    IF k < bodyCloseIdx
    THEN BranchCount(ts, k) + WalkBody(ts, k + 1, bodyCloseIdx)
    ELSE 0

\* The result pushed for one function record.
ScoreFunction(ts, fn) ==
    [name |-> fn.name, line |-> fn.line,
     complexity |-> 1 + WalkBody(ts, fn.bodyOpenIdx + 1,
                                 BodyCloseIdx(ts, fn.bodyOpenIdx))]

(***************************************************************************)
(* Token arrays the analyzers are run on: every array of at most MaxPhrases *)
(* phrases, and the tokens of example sources.                             *)
(***************************************************************************)
LxFunction == <<"keyword", KwFunction>>
LxIf == <<"keyword", KwIf>>
LxElse == <<"keyword", KwElse>>
LxReturn == <<"keyword", KwReturn>>
LxThrow == <<"keyword", KwThrow>>
LxF == <<"identifier", <<"f">>>>
LxX == <<"identifier", <<"x">>>>
LxAnd == <<"operator", <<"&", "&">>>>
LxArrow == <<"operator", <<"=", ">">>>>
LxOpenParen == <<"punctuation", <<"(">>>>
LxCloseParen == <<"punctuation", <<")">>>>
LxOpenBrace == <<"punctuation", <<"{">>>>
LxCloseBrace == <<"punctuation", <<"}">>>>
LxSemicolon == <<"punctuation", <<";">>>>

CxPhrases ==
    {<<LxFunction, LxF, LxOpenParen>>, <<LxCloseParen, LxOpenBrace>>,
     <<LxCloseParen>>, <<LxOpenBrace>>, <<LxCloseBrace>>, <<LxIf>>,
     <<LxElse>>, <<LxAnd>>, <<LxX>>, <<LxArrow>>}

\* The spec's example: a default parameter that is an object literal
SrcDefaultParam ==
    <<
      "f", "u", "n", "c", "t", "i", "o", "n", " ", "f", "(", "o", "p", "t",
      "s", " ", "=", " ", "{", "}", ")", " ", "{", " ", "r", "e", "t", "u",
      "r", "n", " ", "1", ";", " ", "}"
    >>

\* The spec's example: a return in an if block, then a return
SrcIfReturn ==
    <<
      "f", "u", "n", "c", "t", "i", "o", "n", " ", "f", "(", ")", " ", "{",
      " ", "i", "f", " ", "(", "x", ")", " ", "{", " ", "r", "e", "t", "u",
      "r", "n", " ", "1", ";", " ", "}", " ", "r", "e", "t", "u", "r", "n",
      " ", "2", ";", " ", "}"
    >>

\* code-analyzer.test.js, 'nested functions track independently'
SrcNestedFunctions ==
    <<
      "f", "u", "n", "c", "t", "i", "o", "n", " ", "o", "u", "t", "e", "r",
      "(", ")", " ", "{", NL, " ", "i", "f", " ", "(", "x", ")", " ", "{",
      NL, " ", "f", "u", "n", "c", "t", "i", "o", "n", " ", "i", "n", "n",
      "e", "r", "(", ")", " ", "{", NL, " ", "i", "f", " ", "(", "y", ")",
      " ", "r", "e", "t", "u", "r", "n", " ", "1", ";", NL, " ", "r", "e",
      "t", "u", "r", "n", " ", "2", ";", NL, " ", "}", NL, " ", "}", NL, " ",
      "r", "e", "t", "u", "r", "n", " ", "3", ";", NL, "}"
    >>

\* code-analyzer.test.js, 'detects arrow function names'
SrcArrowFunction ==
    <<
      "c", "o", "n", "s", "t", " ", "m", "y", "F", "n", " ", "=", " ", "(",
      "x", ")", " ", "=", ">", " ", "{", " ", "r", "e", "t", "u", "r", "n",
      " ", "x", " ", "*", " ", "2", ";", " ", "}", ";"
    >>

\* An else-if chain, a bare else, the logical operators and a ternary
SrcElseIfChain ==
    <<
      "f", "u", "n", "c", "t", "i", "o", "n", " ", "f", "(", ")", " ", "{",
      " ", "/", "*", " ", "c", " ", "*", "/", " ", "i", "f", " ", "(", "a",
      ")", " ", "{", " ", "}", " ", "e", "l", "s", "e", " ", "i", "f", " ",
      "(", "b", ")", " ", "{", " ", "}", " ", "e", "l", "s", "e", " ", "{",
      " ", "}", NL, " ", "r", "e", "t", "u", "r", "n", " ", "a", " ", "&",
      "&", " ", "b", " ", "|", "|", " ", "c", " ", "?", "?", " ", "d", " ",
      "?", " ", "1", " ", ":", " ", "2", ";", " ", "}"
    >>

\* The keyword branches: for, while, do, catch, case
SrcLoopsAndCatch ==
    <<
      "f", "u", "n", "c", "t", "i", "o", "n", " ", "f", "(", ")", " ", "{",
      " ", "f", "o", "r", " ", "(", ";", ";", ")", " ", "{", " ", "}", " ",
      "w", "h", "i", "l", "e", " ", "(", "x", ")", " ", "{", " ", "}", " ",
      "d", "o", " ", "{", " ", "}", " ", "w", "h", "i", "l", "e", " ", "(",
      "y", ")", ";", " ", "t", "r", "y", " ", "{", " ", "}", " ", "c", "a",
      "t", "c", "h", " ", "(", "e", ")", " ", "{", " ", "}", " ", "s", "w",
      "i", "t", "c", "h", " ", "(", "x", ")", " ", "{", " ", "c", "a", "s",
      "e", " ", "1", ":", " ", "b", "r", "e", "a", "k", ";", " ", "d", "e",
      "f", "a", "u", "l", "t", ":", " ", "}", " ", "}"
    >>

\* test 'counts case branches'
SrcSwitchThreeCases ==
    <<
      "f", "u", "n", "c", "t", "i", "o", "n", " ", "f", "(", "x", ")", " ",
      "{", NL, " ", " ", " ", " ", " ", " ", "s", "w", "i", "t", "c", "h",
      " ", "(", "x", ")", " ", "{", NL, " ", " ", " ", " ", " ", " ", " ",
      " ", "c", "a", "s", "e", " ", "1", ":", " ", "r", "e", "t", "u", "r",
      "n", " ", "'", "a", "'", ";", NL, " ", " ", " ", " ", " ", " ", " ",
      " ", "c", "a", "s", "e", " ", "2", ":", " ", "r", "e", "t", "u", "r",
      "n", " ", "'", "b", "'", ";", NL, " ", " ", " ", " ", " ", " ", " ",
      " ", "c", "a", "s", "e", " ", "3", ":", " ", "r", "e", "t", "u", "r",
      "n", " ", "'", "c", "'", ";", NL, " ", " ", " ", " ", " ", " ", " ",
      " ", "d", "e", "f", "a", "u", "l", "t", ":", " ", "r", "e", "t", "u",
      "r", "n", " ", "'", "d", "'", ";", NL, " ", " ", " ", " ", " ", " ",
      "}", NL, " ", " ", " ", " ", "}"
    >>

\* a switch with a `default` label and no `case`
SrcSwitchDefaultOnly ==
    <<
      "f", "u", "n", "c", "t", "i", "o", "n", " ", "f", "(", "x", ")", " ",
      "{", " ", "s", "w", "i", "t", "c", "h", " ", "(", "x", ")", " ", "{",
      " ", "d", "e", "f", "a", "u", "l", "t", ":", " ", "r", "e", "t", "u",
      "r", "n", " ", "0", ";", " ", "}", " ", "}"
    >>

\* a switch with one `case` and a `default`
SrcSwitchOneCase ==
    <<
      "f", "u", "n", "c", "t", "i", "o", "n", " ", "f", "(", "x", ")", " ",
      "{", " ", "s", "w", "i", "t", "c", "h", " ", "(", "x", ")", " ", "{",
      " ", "c", "a", "s", "e", " ", "1", ":", " ", "g", "(", ")", ";", " ",
      "b", "r", "e", "a", "k", ";", " ", "d", "e", "f", "a", "u", "l", "t",
      ":", " ", "h", "(", ")", ";", " ", "}", " ", "}"
    >>

\* an arrow function with a bare parameter, assigned to a name
SrcArrowBareParam ==
    <<
      "c", "o", "n", "s", "t", " ", "g", " ", "=", " ", "x", " ", "=", ">",
      " ", "{", " ", "r", "e", "t", "u", "r", "n", " ", "x", ";", " ", "}",
      ";"
    >>

CxExamples ==
    {SrcDefaultParam, SrcIfReturn, SrcNestedFunctions, SrcArrowFunction,
     SrcElseIfChain, SrcLoopsAndCatch, SrcSwitchThreeCases,
     SrcSwitchDefaultOnly, SrcSwitchOneCase, SrcArrowBareParam}

CxInputs ==
    {LayOut(Flatten(ps)) : ps \in SeqsUpTo(CxPhrases, MaxPhrases)}
    \cup {Tokenize(src) : src \in CxExamples}

(***************************************************************************)
(* analyzeComplexity(tokens) as a state machine: the call, one action per  *)
(* branch of discoverFunctions' loop, the end of the discovery, one action *)
(* per function scored, and the return.                                    *)
(***************************************************************************)
CxCall ==
    /\ NoCall
    /\ cxTokens' \in CxInputs
    /\ cxI' = 0 /\ fnDefs' = <<>> /\ fnK' = 0 /\ results' = <<>>
    /\ cxPc' = "discover"
    /\ UNCHANGED <<cxOthers>>

CxDiscoverStep(found) ==
    /\ fnDefs' = fnDefs \o found
    /\ cxI' = cxI + 1
    /\ UNCHANGED <<cxTokens, fnK, results, cxPc, cxOthers>>

CxSkipComment ==
    /\ cxPc = "discover" /\ cxI < Len(cxTokens)
    /\ TokAt(cxTokens, cxI).type = "comment"
    /\ CxDiscoverStep(<<>>)

CxFunctionKeyword ==
    /\ cxPc = "discover" /\ cxI < Len(cxTokens)
    /\ IsKeyword(TokAt(cxTokens, cxI), KwFunction)
    /\ CxDiscoverStep(DiscoverFunctionKeyword(cxTokens, cxI))

CxArrow ==
    /\ cxPc = "discover" /\ cxI < Len(cxTokens)
    /\ IsOperator(TokAt(cxTokens, cxI), <<"=", ">">>)
    /\ CxDiscoverStep(DiscoverArrow(cxTokens, cxI))

CxOtherToken ==
    /\ cxPc = "discover" /\ cxI < Len(cxTokens)
    /\ TokAt(cxTokens, cxI).type # "comment"
    /\ ~IsKeyword(TokAt(cxTokens, cxI), KwFunction)
    /\ ~IsOperator(TokAt(cxTokens, cxI), <<"=", ">">>)
    /\ CxDiscoverStep(<<>>)

\* discoverFunctions returned: `if (fnDefs.length === 0) return []`.
CxDiscovered ==
    /\ cxPc = "discover" /\ cxI >= Len(cxTokens)
    /\ cxPc' = IF fnDefs = <<>> THEN "done" ELSE "score"
    /\ UNCHANGED <<cxTokens, cxI, fnDefs, fnK, results, cxOthers>>

\* One iteration of `for (const fn of fnDefs)`.
CxScore ==
    /\ cxPc = "score" /\ fnK < Len(fnDefs)
    /\ results' = Append(results, ScoreFunction(cxTokens, TokAt(fnDefs, fnK)))
    /\ fnK' = fnK + 1
    /\ UNCHANGED <<cxTokens, cxI, fnDefs, cxPc, cxOthers>>

CxReturn ==
    /\ cxPc = "score" /\ fnK >= Len(fnDefs)
    /\ cxPc' = "done"
    /\ UNCHANGED <<cxTokens, cxI, fnDefs, fnK, results, cxOthers>>

CxNext ==
    \/ CxCall \/ CxSkipComment \/ CxFunctionKeyword \/ CxArrow
    \/ CxOtherToken \/ CxDiscovered \/ CxScore \/ CxReturn

SpecCx == Init /\ [][CxNext]_vars

(***************************************************************************)
(* Properties of the complexity analyzer.                                  *)
(***************************************************************************)
\* The 0-based indices of a token array.
Indices(ts) == 0..(Len(ts) - 1)

\* The number of tokens `open` minus the number of tokens `close` among the
\* tokens at indices a..b.
Balance(ts, a, b, open, close) ==
    Cardinality({m \in a..b : IsPunct(TokAt(ts, m), open)})
    - Cardinality({m \in a..b : IsPunct(TokAt(ts, m), close)})

\* The indices after a at which the bracket opened at a is closed.
Closers(ts, a, open, close) ==
    {m \in Indices(ts) : m > a /\ Balance(ts, a, m, open, close) = 0}

Least(S) == CHOOSE m \in S : \A n \in S : m <= n

\* The opening parenthesis of the parameter list of the function whose
\* keyword is at k: the first `(` after it.
ParamOpens(ts, k) == {m \in Indices(ts) : m > k /\ IsPunct(TokAt(ts, m), "(")}

TokensDefaultParam == Tokenize(SrcDefaultParam)

\* C4: the body of a function introduced by the function keyword is the
\* first `{` after the parenthesis that matches the parameter list's opening
\* parenthesis; a brace inside the parameter list is never the body; and
\* `function f(opts = {}) { return 1; }` gives exactly one result, f, with
\* complexity 1.
C4_BodyAfterParameterList ==
    /\ \A n \in 1..Len(fnDefs) :
          LET fn == fnDefs[n]
              opens == ParamOpens(cxTokens, fn.tokenIdx)
              closes == Closers(cxTokens, Least(opens), "(", ")")
          IN IsKeyword(TokAt(cxTokens, fn.tokenIdx), KwFunction) =>
               /\ opens # {} /\ closes # {}
               /\ fn.bodyOpenIdx > Least(closes)
               /\ IsPunct(TokAt(cxTokens, fn.bodyOpenIdx), "{")
               /\ \A m \in (Least(closes) + 1)..(fn.bodyOpenIdx - 1) :
                     ~IsPunct(TokAt(cxTokens, m), "{")
    /\ (cxPc = "done" /\ cxTokens = TokensDefaultParam) =>
          results = <<[name |-> <<"f">>, line |-> 1, complexity |-> 1]>>

\* A function with a brace inside its parameter list was scored.
C4_Witness ==
    /\ cxPc = "done" /\ results # <<>>
    /\ \E n \in 1..Len(fnDefs) :
          LET fn == fnDefs[n]
              opens == ParamOpens(cxTokens, fn.tokenIdx)
          IN /\ IsKeyword(TokAt(cxTokens, fn.tokenIdx), KwFunction)
             /\ \E m \in Least(opens)..fn.bodyOpenIdx :
                   IsPunct(TokAt(cxTokens, m), "{") /\ m < fn.bodyOpenIdx

\* The tokens strictly inside the body opened at `open`, when a `}` closes
\* it.
BodyClosers(ts, open) == Closers(ts, open, "{", "}")
Inside(ts, open) == (open + 1)..(Least(BodyClosers(ts, open)) - 1)

\* The branch indicators C5 names.
ClaimedBranch(ts, m) ==
    LET t == TokAt(ts, m)
        later == {j \in Indices(ts) : j > m /\ TokAt(ts, j).type # "comment"}
    IN \/ t.type = "keyword"
          /\ t.value \in {KwIf, KwFor, KwWhile, KwDo, KwCase, KwCatch}
       \/ t.type = "operator"
          /\ t.value \in {<<"&", "&">>, <<"|", "|">>, <<"?", "?">>, <<"?">>}
       \/ /\ IsKeyword(t, KwElse)
          /\ ~(later # {} /\ IsKeyword(TokAt(ts, Least(later)), KwIf))

\* The other functions found whose body opens inside the body of fnDefs[n].
NestedIn(ts, defs, n) ==
    {j \in 1..Len(defs) :
        j # n /\ defs[j].bodyOpenIdx \in Inside(ts, defs[n].bodyOpenIdx)}

\* C5: for a function whose body (closed by its matching brace) holds no
\* nested function, the complexity is 1 plus the number of branch indicators
\* strictly inside the body; every complexity is at least 1.
C5_ComplexityIsBranchCount ==
    \A n \in 1..Len(results) :
        /\ results[n].complexity >= 1
        /\ (/\ BodyClosers(cxTokens, fnDefs[n].bodyOpenIdx) # {}
            /\ NestedIn(cxTokens, fnDefs, n) = {}) =>
              results[n].complexity =
                 1 + Cardinality({m \in Inside(cxTokens, fnDefs[n].bodyOpenIdx) :
                                     ClaimedBranch(cxTokens, m)})

\* A function without nested functions was scored whose body holds an
\* `else if`, a bare `else` and a comment.
C5_Witness ==
    /\ cxPc = "done"
    /\ \E n \in 1..Len(results) :
          /\ BodyClosers(cxTokens, fnDefs[n].bodyOpenIdx) # {}
          /\ NestedIn(cxTokens, fnDefs, n) = {}
          /\ results[n].complexity > 3
          /\ \E m \in Inside(cxTokens, fnDefs[n].bodyOpenIdx) :
                IsKeyword(TokAt(cxTokens, m), KwElse) /\ ClaimedBranch(cxTokens, m)
          /\ \E m \in Inside(cxTokens, fnDefs[n].bodyOpenIdx) :
                IsKeyword(TokAt(cxTokens, m), KwElse) /\ ~ClaimedBranch(cxTokens, m)
          /\ \E m \in Inside(cxTokens, fnDefs[n].bodyOpenIdx) :
                TokAt(cxTokens, m).type = "comment"

\* C6 as stated: the branch indicators inside a nested function's body are
\* counted in the nested function's result only; the complexity of a
\* function is 1 plus the branch indicators of its body that lie in no
\* nested function's body.
C6_NestedBranchesNotCounted ==
    \A n \in 1..Len(results) :
        (\A j \in 1..Len(fnDefs) :
            BodyClosers(cxTokens, fnDefs[j].bodyOpenIdx) # {}) =>
          results[n].complexity =
             1 + Cardinality(
                   {m \in Inside(cxTokens, fnDefs[n].bodyOpenIdx) :
                       /\ ClaimedBranch(cxTokens, m)
                       /\ \A j \in NestedIn(cxTokens, fnDefs, n) :
                             m \notin Inside(cxTokens, fnDefs[j].bodyOpenIdx)})

(***************************************************************************)
(* dead-code.js                                                            *)
(***************************************************************************)
JUMP_KEYWORDS == {KwReturn, KwThrow, KwBreak, KwContinue}
BRACELESS_CTRL == {KwIf, KwElse, KwFor, KwWhile, KwDo}

\* `tokens.filter(t => t.type !== 'comment')`
Significant(ts) == SelectSeq(ts, LAMBDA t : t.type # "comment")

\* The brace depth after the first n tokens of sig: the loop that fills
\* depthBefore, `{` adds one, `}` takes one and stops at zero.
RECURSIVE DepthAfter(_, _)
DepthAfter(sig, n) ==
    IF n = 0 THEN 0
    ELSE LET d == DepthAfter(sig, n - 1)
             t == TokAt(sig, n - 1)
         IN IF IsPunct(t, "{") THEN d + 1
            ELSE IF IsPunct(t, "}") THEN (IF d - 1 < 0 THEN 0 ELSE d - 1)
            ELSE d

\* depthBefore[k]
DepthBefore(sig, k) == DepthAfter(sig, k)

\* `while (k >= 0 && sig[k].type === 'comment') k--`
RECURSIVE SkipCommentsBack(_, _)
SkipCommentsBack(sig, k) ==
    IF k >= 0 /\ TokAt(sig, k).type = "comment"
    THEN SkipCommentsBack(sig, k - 1) ELSE k

\* The inner loop of isInsideBracelessControl, from the `)` at index j
\* backward to its `(`: is the token before that `(` a control keyword?
RECURSIVE ControlBeforeParen(_, _, _)
ControlBeforeParen(sig, j, depth) ==
    IF j < 0 THEN FALSE
    ELSE LET t == TokAt(sig, j)
             d == IF IsPunct(t, ")") THEN depth + 1 ELSE depth
         IN IF IsPunct(t, "(")
            THEN IF d - 1 = 0
                 THEN LET k == SkipCommentsBack(sig, j - 1)
                      IN /\ k >= 0
                         /\ TokAt(sig, k).type = "keyword"
                         /\ TokAt(sig, k).value \in BRACELESS_CTRL
                 ELSE ControlBeforeParen(sig, j - 1, d - 1)
            ELSE ControlBeforeParen(sig, j - 1, d)

\* The outer loop of isInsideBracelessControl, at index k.
RECURSIVE BracelessLoop(_, _, _)
BracelessLoop(sig, jumpIdx, k) ==
    IF k < 0 THEN FALSE
    ELSE LET tok == TokAt(sig, k)
             d == DepthBefore(sig, k)
             jumpDepth == DepthBefore(sig, jumpIdx)
         IN IF d > jumpDepth THEN BracelessLoop(sig, jumpIdx, k - 1)
            ELSE IF d < jumpDepth THEN FALSE
            ELSE IF IsPunct(tok, ")") THEN ControlBeforeParen(sig, k, 0)
            ELSE IF IsPunct(tok, "{") THEN FALSE
            ELSE IF IsPunct(tok, ";") THEN FALSE
            ELSE IF IsKeyword(tok, KwElse) THEN TRUE
            ELSE BracelessLoop(sig, jumpIdx, k - 1)

\* An isInsideBracelessControl that takes every jump for a standalone one.
isInsideBracelessControlNever(sig, jumpIdx) == FALSE

\* An isInsideBracelessControl that does not know the bare `else`.
RECURSIVE BracelessLoopWithoutElse(_, _, _)
BracelessLoopWithoutElse(sig, jumpIdx, k) ==
    IF k < 0 THEN FALSE
    ELSE LET tok == TokAt(sig, k)
             d == DepthBefore(sig, k)
             jumpDepth == DepthBefore(sig, jumpIdx)
         IN IF d > jumpDepth THEN BracelessLoopWithoutElse(sig, jumpIdx, k - 1)
            ELSE IF d < jumpDepth THEN FALSE
            ELSE IF IsPunct(tok, ")") THEN ControlBeforeParen(sig, k, 0)
            ELSE IF IsPunct(tok, "{") THEN FALSE
            ELSE IF IsPunct(tok, ";") THEN FALSE
            ELSE BracelessLoopWithoutElse(sig, jumpIdx, k - 1)

isInsideBracelessControlWithoutElse(sig, jumpIdx) ==
    BracelessLoopWithoutElse(sig, jumpIdx, jumpIdx - 1)

isInsideBracelessControl(sig, jumpIdx) ==
    BracelessLoop(sig, jumpIdx, jumpIdx - 1)

IsOpener(t) == IsPunct(t, "{") \/ IsPunct(t, "(") \/ IsPunct(t, "[")
IsCloser(t) == IsPunct(t, "}") \/ IsPunct(t, ")") \/ IsPunct(t, "]")

\* A forward scan that does not leave the jump keyword.
StatementEndAtJump(sig, j, nestDepth) == j - 1

\* The forward scan without the nesting counter: it stops at the first
\* closing bracket and behind the first semicolon.
RECURSIVE StatementEndFlat(_, _, _)
StatementEndFlat(sig, j, nestDepth) ==
    IF j >= Len(sig) THEN j
    ELSE IF IsCloser(TokAt(sig, j)) THEN j
    ELSE IF IsPunct(TokAt(sig, j), ";") THEN j + 1
    ELSE StatementEndFlat(sig, j + 1, nestDepth)

\* The forward scan past the jump's own statement: the value of j when the
\* `while (j < sig.length)` loop is left.
RECURSIVE StatementEnd(_, _, _)
StatementEnd(sig, j, nestDepth) ==
    IF j >= Len(sig) THEN j
    ELSE LET t == TokAt(sig, j)
         IN IF IsOpener(t) THEN StatementEnd(sig, j + 1, nestDepth + 1)
            ELSE IF IsCloser(t)
                 THEN IF nestDepth > 0
                      THEN StatementEnd(sig, j + 1, nestDepth - 1)
                      ELSE j
            ELSE IF IsPunct(t, ";") /\ nestDepth = 0 THEN j + 1
            ELSE StatementEnd(sig, j + 1, nestDepth)

\* A check of the next token that never sees the end of the block.
BlockEndsNever(sig, j) == FALSE

\* `nextTok.type === 'punctuation' && nextTok.value === '}'`
BlockEnds(sig, j) == IsPunct(TokAt(sig, j), "}")

\* String(n) for a line number
DigitChars == <<"0", "1", "2", "3", "4", "5", "6", "7", "8", "9">>

RECURSIVE Decimal(_)
Decimal(n) ==
    IF n < 10 THEN <<DigitChars[n + 1]>>
    ELSE Decimal(n \div 10) \o <<DigitChars[(n % 10) + 1]>>

MessagePrefix ==
    <<"U", "n", "r", "e", "a", "c", "h", "a", "b", "l", "e", " ", "c", "o",
      "d", "e", " ", "a", "f", "t", "e", "r", " ", "'">>
MessageMiddle == <<"'", " ", "(", "a", "t", " ", "l", "i", "n", "e", " ">>
MessageSuffix == <<")">>

\* `Unreachable code after '${tok.value}' (at line ${tok.line})`
Message(tok) ==
    MessagePrefix \o tok.value \o MessageMiddle \o Decimal(tok.line)
        \o MessageSuffix

\* The white space and line terminators of ECMAScript beyond ASCII; a
\* character that a string of this module cannot hold is written as its
\* code point.
UnicodeSpaceChars ==
    {"U+00A0", "U+1680", "U+2000", "U+2001", "U+2002", "U+2003", "U+2004",
     "U+2005", "U+2006", "U+2007", "U+2008", "U+2009", "U+200A", "U+2028",
     "U+2029", "U+202F", "U+205F", "U+3000", "U+FEFF"}

\* String.prototype.trim on a line of the source: it strips white space and
\* line terminators (tab, \v, \f, space, \n, \r and those beyond ASCII).
TrimChars == {" ", "\t", "\r", "\f", VT, NL} \cup UnicodeSpaceChars

RECURSIVE TrimStart(_)
TrimStart(s) ==
    IF s # <<>> /\ Head(s) \in TrimChars THEN TrimStart(Tail(s)) ELSE s

RECURSIVE TrimEnd(_)
TrimEnd(s) ==
    IF s # <<>> /\ s[Len(s)] \in TrimChars
    THEN TrimEnd(SubSeq(s, 1, Len(s) - 1)) ELSE s

Trim(s) == TrimEnd(TrimStart(s))

\* `lines[nextTok.line - 1] ? lines[nextTok.line - 1].trim() : ''`
Snippet(lines, ln) ==
    IF ln >= 1 /\ ln <= Len(lines) /\ lines[ln] # <<>>
    THEN Trim(lines[ln]) ELSE <<>>

\* The object pushed onto issues for the jump tok and the token after its
\* statement.
DeadCodeIssue(tok, nextTok, lines) ==
    [line |-> nextTok.line, col |-> nextTok.col, message |-> Message(tok),
     kind |-> "dead-code", snippet |-> Snippet(lines, nextTok.line)]

\* source.split('\n')
RECURSIVE SplitLinesFrom(_, _, _)
SplitLinesFrom(src, k, cur) ==
    IF k >= Len(src) THEN <<cur>>
    ELSE IF src[k + 1] = NL
         THEN <<cur>> \o SplitLinesFrom(src, k + 1, <<>>)
         ELSE SplitLinesFrom(src, k + 1, Append(cur, src[k + 1]))

SplitLines(src) == SplitLinesFrom(src, 0, <<>>)

(***************************************************************************)
(* The calls detectDeadCode(tokens) on laid-out phrases and                *)
(* detectDeadCode(tokenize(src), src.split('\n')) on sources.              *)
(***************************************************************************)
DcPhrases ==
    {<<LxReturn, LxSemicolon>>, <<LxX, LxSemicolon>>, <<LxReturn>>,
     <<LxSemicolon>>, <<LxX>>, <<LxOpenBrace>>, <<LxCloseBrace>>,
     <<LxOpenParen>>, <<LxCloseParen>>,
     <<LxIf, LxOpenParen, LxX, LxCloseParen>>, <<LxElse>>}

\* test 'detects code after return'
SrcDeadAfterReturn ==
    <<
      "f", "u", "n", "c", "t", "i", "o", "n", " ", "f", "(", ")", " ", "{",
      NL, " ", " ", "r", "e", "t", "u", "r", "n", " ", "1", ";", NL, " ",
      " ", "c", "o", "n", "s", "t", " ", "x", " ", "=", " ", "2", ";", NL, "}"
    >>

\* test 'detects code after throw'
SrcDeadAfterThrow ==
    <<
      "f", "u", "n", "c", "t", "i", "o", "n", " ", "f", "(", ")", " ", "{",
      NL, " ", " ", "t", "h", "r", "o", "w", " ", "n", "e", "w", " ", "E",
      "r", "r", "o", "r", "(", "'", "o", "o", "p", "s", "'", ")", ";", NL,
      " ", " ", "c", "o", "n", "s", "o", "l", "e", ".", "l", "o", "g", "(",
      "'", "n", "e", "v", "e", "r", "'", ")", ";", NL, "}"
    >>

\* The one-line form of the same function
SrcDeadOneLine ==
    <<
      "f", "u", "n", "c", "t", "i", "o", "n", " ", "f", "(", ")", " ", "{",
      " ", "r", "e", "t", "u", "r", "n", " ", "1", ";", " ", "c", "o", "n",
      "s", "t", " ", "x", " ", "=", " ", "2", ";", " ", "}"
    >>

\* test 'does not flag closing brace after return'
SrcReturnBeforeBrace ==
    <<
      "f", "u", "n", "c", "t", "i", "o", "n", " ", "f", "(", ")", " ", "{",
      " ", "r", "e", "t", "u", "r", "n", " ", "1", ";", " ", "}"
    >>

\* test 'detects code after continue'
SrcDeadAfterContinue ==
    <<
      "f", "u", "n", "c", "t", "i", "o", "n", " ", "f", "(", ")", " ", "{",
      NL, " ", " ", "f", "o", "r", " ", "(", "l", "e", "t", " ", "i", " ",
      "=", " ", "0", ";", " ", "i", " ", "<", " ", "1", "0", ";", " ", "i",
      "+", "+", ")", " ", "{", NL, " ", " ", " ", " ", "c", "o", "n", "t",
      "i", "n", "u", "e", ";", NL, " ", " ", " ", " ", "d", "o", "S", "o",
      "m", "e", "t", "h", "i", "n", "g", "(", ")", ";", NL, " ", " ", "}",
      NL, "}"
    >>

\* test 'no dead code in clean function'
SrcCleanFunction ==
    <<
      NL, "f", "u", "n", "c", "t", "i", "o", "n", " ", "c", "l", "e", "a",
      "n", "(", "x", ")", " ", "{", NL, " ", " ", "i", "f", " ", "(", "x",
      " ", ">", " ", "0", ")", " ", "{", NL, " ", " ", " ", " ", "r", "e",
      "t", "u", "r", "n", " ", "x", ";", NL, " ", " ", "}", " ", "e", "l",
      "s", "e", " ", "{", NL, " ", " ", " ", " ", "r", "e", "t", "u", "r",
      "n", " ", "-", "x", ";", NL, " ", " ", "}", NL, "}"
    >>

\* `if (x) return;` before another statement
SrcBracelessIf ==
    <<
      "f", "u", "n", "c", "t", "i", "o", "n", " ", "f", "(", "x", ")", " ",
      "{", NL, " ", " ", "i", "f", " ", "(", "x", ")", " ", "r", "e", "t",
      "u", "r", "n", ";", NL, " ", " ", "g", "(", ")", ";", NL, "}"
    >>

\* Jumps that are the braceless bodies of for, while and else
SrcBracelessLoops ==
    <<
      "f", "o", "r", " ", "(", ";", ";", ")", " ", "b", "r", "e", "a", "k",
      ";", NL, "w", "h", "i", "l", "e", " ", "(", "x", ")", " ", "c", "o",
      "n", "t", "i", "n", "u", "e", ";", NL, "i", "f", " ", "(", "x", ")",
      " ", "a", "(", ")", ";", " ", "e", "l", "s", "e", " ", "r", "e", "t",
      "u", "r", "n", ";", NL, "b", "(", ")", ";"
    >>

\* `return { ... };` with a comment before the next statement
SrcReturnObject ==
    <<
      "f", "u", "n", "c", "t", "i", "o", "n", " ", "f", "(", ")", " ", "{",
      NL, " ", " ", "r", "e", "t", "u", "r", "n", " ", "{", " ", "a", ":",
      " ", "1", ",", " ", "b", ":", " ", "[", "1", ",", " ", "2", "]", " ",
      "}", ";", " ", "/", "/", " ", "d", "o", "n", "e", NL, " ", " ", "g",
      "(", ")", ";", NL, "}"
    >>

\* A returned function whose own body has a statement after its return
SrcReturnFunction ==
    <<
      "f", "u", "n", "c", "t", "i", "o", "n", " ", "f", "(", ")", " ", "{",
      NL, " ", " ", "r", "e", "t", "u", "r", "n", " ", "f", "u", "n", "c",
      "t", "i", "o", "n", " ", "(", ")", " ", "{", " ", "r", "e", "t", "u",
      "r", "n", " ", "1", ";", " ", "x", "(", ")", ";", " ", "}", ";", NL,
      " ", " ", "y", "(", ")", ";", NL, "}"
    >>

\* A thrown function whose own body has a statement after its return, in a
\* run of statements after a return
SrcJumpInsideRun ==
    <<
      "f", "u", "n", "c", "t", "i", "o", "n", " ", "f", "(", ")", " ", "{",
      NL, " ", " ", "r", "e", "t", "u", "r", "n", " ", "1", ";", NL, " ",
      " ", "t", "h", "r", "o", "w", " ", "f", "u", "n", "c", "t", "i", "o",
      "n", " ", "(", ")", " ", "{", " ", "r", "e", "t", "u", "r", "n", " ",
      "2", ";", " ", "x", "(", ")", ";", " ", "}", ";", NL, " ", " ", "y",
      "(", ")", ";", NL, "}"
    >>

\* Two jumps in a row before another statement
SrcTwoJumps ==
    <<
      "f", "u", "n", "c", "t", "i", "o", "n", " ", "f", "(", ")", " ", "{",
      NL, " ", " ", "r", "e", "t", "u", "r", "n", " ", "1", ";", NL, " ",
      " ", "t", "h", "r", "o", "w", " ", "e", ";", NL, " ", " ", "g", "(",
      ")", ";", NL, "}"
    >>

\* a `default` label that follows `break;` in a switch body
SrcSwitchBreakDefault ==
    <<
      "f", "u", "n", "c", "t", "i", "o", "n", " ", "f", "(", "x", ")", " ",
      "{", NL, " ", " ", "s", "w", "i", "t", "c", "h", " ", "(", "x", ")",
      " ", "{", NL, " ", " ", " ", " ", "c", "a", "s", "e", " ", "1", ":",
      NL, " ", " ", " ", " ", " ", " ", "b", "r", "e", "a", "k", ";", NL,
      " ", " ", " ", " ", "d", "e", "f", "a", "u", "l", "t", ":", NL, " ",
      " ", " ", " ", " ", " ", "r", "e", "t", "u", "r", "n", " ", "0", ";",
      NL, " ", " ", "}", NL, "}"
    >>

\* test 'detects code after break in switch'
SrcSwitchDeadAfterBreak ==
    <<
      "f", "u", "n", "c", "t", "i", "o", "n", " ", "f", "(", "x", ")", " ",
      "{", NL, " ", " ", "s", "w", "i", "t", "c", "h", "(", "x", ")", " ",
      "{", NL, " ", " ", " ", " ", "c", "a", "s", "e", " ", "1", ":", NL,
      " ", " ", " ", " ", " ", " ", "b", "r", "e", "a", "k", ";", NL, " ",
      " ", " ", " ", " ", " ", "c", "o", "n", "s", "o", "l", "e", ".", "l",
      "o", "g", "(", "'", "d", "e", "a", "d", "'", ")", ";", NL, " ", " ",
      " ", " ", "d", "e", "f", "a", "u", "l", "t", ":", NL, " ", " ", " ",
      " ", " ", " ", "r", "e", "t", "u", "r", "n", " ", "0", ";", NL, " ",
      " ", "}", NL, "}"
    >>

\* a `case` label that follows `return 1;` in a switch body
SrcSwitchReturnCase ==
    <<
      "f", "u", "n", "c", "t", "i", "o", "n", " ", "f", "(", "x", ")", " ",
      "{", NL, " ", " ", "s", "w", "i", "t", "c", "h", " ", "(", "x", ")",
      " ", "{", NL, " ", " ", " ", " ", "c", "a", "s", "e", " ", "1", ":",
      NL, " ", " ", " ", " ", " ", " ", "r", "e", "t", "u", "r", "n", " ",
      "1", ";", NL, " ", " ", " ", " ", "c", "a", "s", "e", " ", "2", ":",
      NL, " ", " ", " ", " ", " ", " ", "g", "(", ")", ";", NL, " ", " ",
      "}", NL, "}"
    >>

\* PLAYBOOK, 'Handle Nested Braces in Return Expressions': the return of
\* an object literal as the last statement of a block
SrcReturnObjectLast ==
    <<
      "f", "u", "n", "c", "t", "i", "o", "n", " ", "f", "(", ")", " ", "{",
      NL, " ", " ", "r", "e", "t", "u", "r", "n", " ", "{", " ", "a", ":",
      " ", "1", ",", " ", "b", ":", " ", "[", "1", ",", " ", "2", "]", " ",
      "}", ";", NL, "}"
    >>

\* A dead statement on a line that begins with a no-break space and ends
\* with a space and an ideographic space.
SrcDeadAfterNoBreakSpace ==
    <<"r", "e", "t", "u", "r", "n", ";", NL, "U+00A0", "x", "(", ")", ";",
      " ", "U+3000">>

DcExamples ==
    {SrcDeadAfterReturn, SrcDeadAfterThrow, SrcDeadOneLine, SrcReturnBeforeBrace,
     SrcDeadAfterContinue, SrcCleanFunction, SrcBracelessIf, SrcBracelessLoops,
     SrcReturnObject, SrcReturnObjectLast, SrcReturnFunction, SrcTwoJumps, SrcIfReturn,
     SrcSwitchBreakDefault, SrcSwitchDeadAfterBreak, SrcSwitchReturnCase,
     SrcDeadAfterNoBreakSpace}

DcInputs ==
    {[tokens |-> LayOut(Flatten(ps)), lines |-> <<>>] :
        ps \in SeqsUpTo(DcPhrases, MaxPhrases)}
    \cup {[tokens |-> Tokenize(src), lines |-> SplitLines(src)] :
            src \in DcExamples \cup {SrcJumpInsideRun}}

(***************************************************************************)
(* detectDeadCode(tokens, lines) as a state machine: the call, one action  *)
(* per way through the body of `for (let i = 0; i < sig.length; i++)`, and *)
(* the return.  dcI is the loop's i, an index into the significant tokens. *)
(***************************************************************************)
DcCall ==
    /\ NoCall
    /\ \E in \in DcInputs : dcTokens' = in.tokens /\ dcLines' = in.lines
    /\ dcI' = 0 /\ issues' = <<>> /\ dcPc' = "scan"
    /\ UNCHANGED <<dcOthers>>

DcSig == Significant(dcTokens)

IsJump(t) == t.type = "keyword" /\ t.value \in JUMP_KEYWORDS

\* The loop is at a token that is a jump keyword.
DcAtJump == dcPc = "scan" /\ dcI < Len(DcSig) /\ IsJump(TokAt(DcSig, dcI))

\* A jump keyword that is not inside a braceless control statement.
DcAtStandaloneJump == DcAtJump /\ ~isInsideBracelessControl(DcSig, dcI)

\* `continue`: the loop goes on with i + 1 and nothing is reported.
DcContinue ==
    /\ dcI' = dcI + 1
    /\ UNCHANGED <<dcTokens, dcLines, issues, dcPc, dcOthers>>

DcNotJump ==
    /\ dcPc = "scan" /\ dcI < Len(DcSig) /\ ~IsJump(TokAt(DcSig, dcI))
    /\ DcContinue

DcBraceless ==
    /\ DcAtJump /\ isInsideBracelessControl(DcSig, dcI)
    /\ DcContinue

\* `if (j >= sig.length) continue`
DcNothingFollows ==
    /\ DcAtStandaloneJump
    /\ StatementEnd(DcSig, dcI + 1, 0) >= Len(DcSig)
    /\ DcContinue

DcBlockEnds ==
    /\ DcAtStandaloneJump
    /\ LET j == StatementEnd(DcSig, dcI + 1, 0)
       IN j < Len(DcSig) /\ BlockEnds(DcSig, j)
    /\ DcContinue

\* `if (depthBefore[j] !== jumpDepth) continue`
DcOtherDepth ==
    /\ DcAtStandaloneJump
    /\ LET j == StatementEnd(DcSig, dcI + 1, 0)
       IN /\ j < Len(DcSig) /\ ~BlockEnds(DcSig, j)
          /\ DepthBefore(DcSig, j) # DepthBefore(DcSig, dcI)
    /\ DcContinue

\* issues.push(...); `i = j - 1` and the loop's i++.
DcReport ==
    /\ DcAtStandaloneJump
    /\ LET j == StatementEnd(DcSig, dcI + 1, 0)
       IN /\ j < Len(DcSig) /\ ~BlockEnds(DcSig, j)
          /\ DepthBefore(DcSig, j) = DepthBefore(DcSig, dcI)
          /\ issues' = Append(issues,
                 DeadCodeIssue(TokAt(DcSig, dcI), TokAt(DcSig, j), dcLines))
          /\ dcI' = (j - 1) + 1
    /\ UNCHANGED <<dcTokens, dcLines, dcPc, dcOthers>>

DcReturn ==
    /\ dcPc = "scan" /\ dcI >= Len(DcSig)
    /\ dcPc' = "done"
    /\ UNCHANGED <<dcTokens, dcLines, dcI, issues, dcOthers>>

DcNext ==
    \/ DcCall \/ DcNotJump \/ DcBraceless \/ DcNothingFollows
    \/ DcBlockEnds \/ DcOtherDepth \/ DcReport \/ DcReturn

SpecDc == Init /\ [][DcNext]_vars

(***************************************************************************)
(* Properties of the dead-code detector.                                   *)
(***************************************************************************)
\* Opening brackets minus closing brackets, of all three kinds, among the
\* tokens at indices a..b.
Nesting(ts, a, b) ==
    Cardinality({m \in a..b : IsOpener(TokAt(ts, m))})
    - Cardinality({m \in a..b : IsCloser(TokAt(ts, m))})

\* The tokens at a..b close every bracket they open, and no other.
WellNested(ts, a, b) ==
    /\ Nesting(ts, a, b) = 0 /\ Balance(ts, a, b, "{", "}") = 0
    /\ \A m \in a..b :
          Nesting(ts, a, m) >= 0 /\ Balance(ts, a, m, "{", "}") >= 0

\* The semicolons that can end the statement of the jump at k: those after
\* k that lie outside every bracket opened since k.
StatementTerminators(ts, k) ==
    {e \in Indices(ts) :
        e > k /\ IsPunct(TokAt(ts, e), ";") /\ WellNested(ts, k + 1, e)}

\* The token at k begins a statement of a block or of the program.
StartsStatement(ts, k) ==
    \/ k = 0
    \/ k > 0 /\ (IsPunct(TokAt(ts, k - 1), ";") \/ IsPunct(TokAt(ts, k - 1), "{"))

Greatest(S) == CHOOSE m \in S : \A n \in S : m >= n

\* The `(` that the `)` at c closes.
ParenOpeners(ts, c) ==
    {o \in Indices(ts) :
        o < c /\ IsPunct(TokAt(ts, o), "(") /\ Balance(ts, o, c, "(", ")") = 0}

\* The jump at k is the braceless body of `if (...)`, `for (...)`,
\* `while (...)` or a bare `else`.
ClaimedBraceless(ts, k) ==
    /\ k > 0
    /\ \/ IsKeyword(TokAt(ts, k - 1), KwElse)
       \/ /\ IsPunct(TokAt(ts, k - 1), ")")
          /\ ParenOpeners(ts, k - 1) # {}
          /\ LET o == Greatest(ParenOpeners(ts, k - 1))
             IN /\ o > 0
                /\ \E w \in {KwIf, KwFor, KwWhile} : IsKeyword(TokAt(ts, o - 1), w)

\* The issues located at the token at index j.
IssuesAt(ts, j) ==
    {n \in 1..Len(issues) :
        issues[n].line = TokAt(ts, j).line /\ issues[n].col = TokAt(ts, j).col}

\* The index of the token an issue points at.
IssueIndex(ts, is) ==
    CHOOSE k \in Indices(ts) :
        TokAt(ts, k).line = is.line /\ TokAt(ts, k).col = is.col

\* The statements from the token at j to the end of its block: up to the
\* `}` that closes the block, or to the end of the program.
RunEnd(ts, j) ==
    Least({m \in Indices(ts) : m >= j /\ Balance(ts, j, m, "{", "}") < 0}
          \cup {Len(ts)})

Run(ts, j) == j..(RunEnd(ts, j) - 1)

\* C7: when detectDeadCode has returned, every jump keyword that begins a
\* statement of a block, and whose statement is followed in that block by
\* another token that is not a closing bracket, has exactly one issue at the
\* line and column of that token, with the message naming the jump keyword
\* and the jump's line.
C7_StatementAfterJumpReported ==
    dcPc = "done" =>
        \A k \in Indices(DcSig) :
            LET ends == StatementTerminators(DcSig, k)
                j == Least(ends) + 1
            IN (/\ IsJump(TokAt(DcSig, k)) /\ StartsStatement(DcSig, k)
                /\ ends # {} /\ j < Len(DcSig)
                /\ ~IsCloser(TokAt(DcSig, j)))
               => /\ Cardinality(IssuesAt(DcSig, j)) = 1
                  /\ \A n \in IssuesAt(DcSig, j) :
                        issues[n].message = Message(TokAt(DcSig, k))

\* C8: the loop step at a jump keyword that is the braceless body of
\* `if (...)`, `for (...)`, `while (...)` or a bare `else` reports nothing
\* and goes on with the next token; and `if (x) return;` followed by another
\* statement gives no issue at all.
C8_BracelessJumpNotReported ==
    [][/\ (/\ dcPc = "scan" /\ dcI < Len(DcSig)
           /\ IsJump(TokAt(DcSig, dcI)) /\ ClaimedBraceless(DcSig, dcI))
          => (issues' = issues /\ dcI' = dcI + 1)
       /\ (dcPc' = "done" /\ dcLines' = SplitLines(SrcBracelessIf))
          => issues' = <<>>]_vars

\* detectDeadCode returned no issue for tokens in which a jump that is a
\* braceless body is followed by a further statement.
C8_Witness ==
    /\ dcPc = "done" /\ issues = <<>>
    /\ \E k \in Indices(DcSig) :
          /\ IsJump(TokAt(DcSig, k)) /\ ClaimedBraceless(DcSig, k)
          /\ k + 2 < Len(DcSig)
          /\ IsPunct(TokAt(DcSig, k + 1), ";")
          /\ ~IsCloser(TokAt(DcSig, k + 2))

\* C9: a loop step that reports an issue reports one, for the jump at the
\* loop's index, at a token that lies after the first semicolon ending the
\* jump's statement and outside the brackets of that statement, is not `}`
\* and has the brace depth of the jump; a step at a jump whose statement is
\* directly followed by the `}` of its block reports nothing; and
\* `function f() { if (x) { return 1; } return 2; }` gives no issue.
C9_IssueInTheJumpsBlock ==
    [][/\ issues' # issues =>
            /\ dcPc = "scan" /\ dcI < Len(DcSig)
            /\ IsJump(TokAt(DcSig, dcI))
            /\ Len(issues') = Len(issues) + 1
            /\ SubSeq(issues', 1, Len(issues)) = issues
            /\ \E j \in Indices(DcSig) :
                  /\ j > dcI /\ dcI' = j
                  /\ issues'[Len(issues')].line = TokAt(DcSig, j).line
                  /\ issues'[Len(issues')].col = TokAt(DcSig, j).col
                  /\ ~IsPunct(TokAt(DcSig, j), "}")
                  /\ DepthBefore(DcSig, j) = DepthBefore(DcSig, dcI)
                  /\ Nesting(DcSig, dcI + 1, j - 1) = 0
                  /\ \A m \in (dcI + 1)..(j - 2) :
                        IsPunct(TokAt(DcSig, m), ";")
                            => Nesting(DcSig, dcI + 1, m) > 0
       /\ (/\ dcPc = "scan" /\ dcI < Len(DcSig)
           /\ IsJump(TokAt(DcSig, dcI))
           /\ LET ends == StatementTerminators(DcSig, dcI)
              IN /\ ends # {} /\ Least(ends) + 1 < Len(DcSig)
                 /\ IsPunct(TokAt(DcSig, Least(ends) + 1), "}"))
          => issues' = issues
       /\ (dcPc' = "done" /\ dcLines' = SplitLines(SrcIfReturn))
          => issues' = <<>>]_vars

\* detectDeadCode returned with an issue reported, for tokens in which
\* another jump is the last statement of its block.
C9_Witness ==
    /\ dcPc = "done" /\ issues # <<>>
    /\ \E k \in Indices(DcSig) :
          LET ends == StatementTerminators(DcSig, k)
          IN /\ IsJump(TokAt(DcSig, k)) /\ StartsStatement(DcSig, k)
             /\ ends # {} /\ Least(ends) + 1 < Len(DcSig)
             /\ IsPunct(TokAt(DcSig, Least(ends) + 1), "}")

\* C10 as the spec states it: when detectDeadCode has returned, the run of
\* statements that starts at the token of an issue holds no other issue.
C10_AsStated ==
    dcPc = "done" =>
        \A n \in 1..Len(issues) :
            \A m \in 1..Len(issues) :
                m # n => IssueIndex(DcSig, issues[m])
                            \notin Run(DcSig, IssueIndex(DcSig, issues[n]))

\* The tokens after the jump at k at which its statement can end: a
\* semicolon or a closing bracket with as many brackets opened as closed
\* between the jump and it.
StatementStops(ts, k) ==
    {m \in Indices(ts) :
        /\ m > k
        /\ IsPunct(TokAt(ts, m), ";") \/ IsCloser(TokAt(ts, m))
        /\ Nesting(ts, k + 1, m - 1) = 0}

\* The index of the first token after the statement of the jump at k: the
\* token behind the first such semicolon, or the first such closing
\* bracket itself, or the length of the array.
ClaimedStatementEnd(ts, k) ==
    IF StatementStops(ts, k) = {} THEN Len(ts)
    ELSE LET m == Least(StatementStops(ts, k))
         IN IF IsCloser(TokAt(ts, m)) THEN m ELSE m + 1

\* The jump at k is no braceless body, and the first token after its
\* statement is a token of the jump's block other than the closing brace.
FollowedInBlock(ts, k) ==
    /\ IsJump(TokAt(ts, k)) /\ ~ClaimedBraceless(ts, k)
    /\ LET e == ClaimedStatementEnd(ts, k)
       IN /\ e < Len(ts) /\ ~IsPunct(TokAt(ts, e), "}")
          /\ DepthBefore(ts, e) = DepthBefore(ts, k)

\* The jumps of the run that starts at j, at any depth, that have a further
\* statement after them in their block.
FollowedJumpsIn(ts, j) == {q \in Run(ts, j) : FollowedInBlock(ts, q)}

\* C10: when detectDeadCode has returned, every issue points at the first
\* token after the statement of the jump its message names, in the jump's
\* block, and the run of statements that starts there holds no other issue,
\* provided the run holds no jump that is not a braceless body and is
\* followed in its block by a further statement.  A jump that is the last
\* statement of its block does not count.
C10_OneIssuePerRun ==
    dcPc = "done" =>
        \A n \in 1..Len(issues) :
            LET j == IssueIndex(DcSig, issues[n])
            IN /\ \E k \in 0..(j - 1) :
                    /\ IsJump(TokAt(DcSig, k))
                    /\ issues[n].message = Message(TokAt(DcSig, k))
                    /\ ClaimedStatementEnd(DcSig, k) = j
                    /\ DepthBefore(DcSig, k) = DepthBefore(DcSig, j)
               /\ FollowedJumpsIn(DcSig, j) = {} =>
                    \A m \in 1..Len(issues) :
                        m # n => IssueIndex(DcSig, issues[m]) \notin Run(DcSig, j)

\* detectDeadCode returned exactly one issue for a run of at least two
\* statements that holds a jump as the last statement of its block.
C10_Witness ==
    /\ dcPc = "done" /\ Len(issues) = 1
    /\ LET j == IssueIndex(DcSig, issues[1])
       IN /\ FollowedJumpsIn(DcSig, j) = {}
          /\ \E q \in Run(DcSig, j) :
                /\ IsJump(TokAt(DcSig, q)) /\ StartsStatement(DcSig, q)
                /\ q > j
          /\ Cardinality({m \in Run(DcSig, j) :
                            /\ IsPunct(TokAt(DcSig, m), ";")
                            /\ Nesting(DcSig, j, m) = 0}) >= 2


(***************************************************************************)
(* Switch labels and the dead-code detector.                               *)
(***************************************************************************)
\* The token is a `case` or `default` label keyword.
IsSwitchLabel(tok) == IsKeyword(tok, KwCase) \/ IsKeyword(tok, KwDefault)

\* C11: when detectDeadCode has returned, no issue points at a `case` or
\* `default` label: a label is reached by the switch's dispatch whatever
\* the statement before it does.
C11_NoIssueAtSwitchLabel ==
    dcPc = "done" =>
        \A n \in 1..Len(issues) :
            ~IsSwitchLabel(TokAt(DcSig, IssueIndex(DcSig, issues[n])))

(***************************************************************************)
(* Switch labels and the complexity score.                                 *)
(***************************************************************************)
\* The tokens inside the body of fnDefs[n] that are the keyword kw.
KeywordsInside(ts, defs, n, kw) ==
    {m \in Inside(ts, defs[n].bodyOpenIdx) : IsKeyword(TokAt(ts, m), kw)}

\* The only branching of fnDefs[n] is a switch with a `default` label: its
\* body is closed, holds no nested function, holds `switch` and `default`,
\* and every branch indicator in it is a `case`.
OnlySwitchBranching(ts, defs, n) ==
    /\ BodyClosers(ts, defs[n].bodyOpenIdx) # {}
    /\ NestedIn(ts, defs, n) = {}
    /\ KeywordsInside(ts, defs, n, KwSwitch) # {}
    /\ KeywordsInside(ts, defs, n, KwDefault) # {}
    /\ \A m \in Inside(ts, defs[n].bodyOpenIdx) :
          ClaimedBranch(ts, m) => IsKeyword(TokAt(ts, m), KwCase)

\* C17: a function whose only branching is a switch with N `case` labels
\* and a `default` label is scored 1 + N.
C17_SwitchScoresOnePlusCases ==
    cxPc = "done" =>
        \A n \in 1..Len(results) :
            OnlySwitchBranching(cxTokens, fnDefs, n) =>
                results[n].complexity =
                    1 + Cardinality(KeywordsInside(cxTokens, fnDefs, n, KwCase))

\* A function with a switch of three `case` labels and a `default` was
\* scored 4.
C17_Witness ==
    /\ cxPc = "done"
    /\ \E n \in 1..Len(results) :
          /\ OnlySwitchBranching(cxTokens, fnDefs, n)
          /\ Cardinality(KeywordsInside(cxTokens, fnDefs, n, KwCase)) = 3
          /\ results[n].complexity = 4

(***************************************************************************)
(* The name of an arrow function.                                          *)
(***************************************************************************)
\* The first token of the parameters of the arrow at index a: the `(` that
\* the `)` before the arrow closes, or the bare parameter; -1 if neither.
ArrowParamsStart(ts, a) ==
    IF a = 0 THEN -1
    ELSE IF IsPunct(TokAt(ts, a - 1), ")")
    THEN IF ParenOpeners(ts, a - 1) = {} THEN -1
         ELSE Greatest(ParenOpeners(ts, a - 1))
    ELSE IF TokAt(ts, a - 1).type = "identifier" THEN a - 1
    ELSE -1

\* The arrow at index a is assigned to a name: `name = params =>`.
HasAssignmentTarget(ts, a) ==
    LET p == ArrowParamsStart(ts, a)
    IN /\ p >= 2
       /\ TokAt(ts, p - 1).type = "operator" /\ TokAt(ts, p - 1).value = <<"=">>
       /\ TokAt(ts, p - 2).type = "identifier"

AssignmentTarget(ts, a) == TokAt(ts, ArrowParamsStart(ts, a) - 2).value

\* C18: when analyzeComplexity has returned, every block-bodied arrow
\* function assigned to a name is reported under that name.
C18_ArrowNamedByAssignmentTarget ==
    cxPc = "done" =>
        \A n \in 1..Len(results) :
            LET a == fnDefs[n].tokenIdx
            IN (/\ IsOperator(TokAt(cxTokens, a), <<"=", ">">>)
                /\ HasAssignmentTarget(cxTokens, a))
               => results[n].name = AssignmentTarget(cxTokens, a)


(***************************************************************************)
(* dependency-mapper.js: the helpers, buildGraph and detectCircularDeps.   *)
(***************************************************************************)
\* The number of import records the generated file data holds in all.
MaxImports == 3

\* The members of a sequence.
Range(s) == {s[n] : n \in 1..Len(s)}

\* s.split('/') from index k on, cur being the part collected so far.
RECURSIVE SplitPathFrom(_, _, _)
SplitPathFrom(s, k, cur) ==
    IF k >= Len(s) THEN <<cur>>
    ELSE IF s[k + 1] = "/"
         THEN <<cur>> \o SplitPathFrom(s, k + 1, <<>>)
         ELSE SplitPathFrom(s, k + 1, Append(cur, s[k + 1]))

SplitPath(s) == SplitPathFrom(s, 0, <<>>)

\* parts.join('/')
RECURSIVE JoinPath(_)
JoinPath(parts) ==
    IF parts = <<>> THEN <<>>
    ELSE IF Len(parts) = 1 THEN parts[1]
    ELSE parts[1] \o <<"/">> \o JoinPath(Tail(parts))

\* parts.pop(): nothing happens to an empty array.
Pop(parts) == IF parts = <<>> THEN <<>> ELSE SubSeq(parts, 1, Len(parts) - 1)

\* The loop over specParts from its k-th part on: `..` pops, `.` is
\* skipped, every other part is pushed.
RECURSIVE ResolveParts(_, _, _)
ResolveParts(parts, specParts, k) ==
    IF k > Len(specParts) THEN parts
    ELSE LET part == specParts[k]
         IN ResolveParts(IF part = <<".", ".">> THEN Pop(parts)
                         ELSE IF part # <<".">> THEN Append(parts, part)
                         ELSE parts,
                         specParts, k + 1)

\* resolveImport(fromFile, specifier)
resolveImport(fromFile, specifier) ==
    IF ~(specifier # <<>> /\ specifier[1] = ".") THEN specifier
    ELSE LET resolved == JoinPath(ResolveParts(Pop(SplitPath(fromFile)),
                                               SplitPath(specifier), 1))
         IN IF "." \notin Range(resolved)
            THEN resolved \o <<".", "j", "s">> ELSE resolved

\* graph.has(key)
GraphHas(g, key) == key \in Range(g.nodes)

\* graph.set(key, new Set()) for a key the Map does not hold.
GraphSet(g, key) ==
    [nodes |-> Append(g.nodes, key), edges |-> g.edges @@ (key :> <<>>)]

\* `if (!graph.has(key)) graph.set(key, new Set())`
GraphEnsure(g, key) == IF GraphHas(g, key) THEN g ELSE GraphSet(g, key)

\* graph.get(from).add(to): a Set keeps a member once, in insertion order.
GraphAdd(g, from, to) ==
    IF to \in Range(g.edges[from]) THEN g
    ELSE [g EXCEPT !.edges[from] = Append(@, to)]

\* The loop over the imports without `graph.set(resolved, new Set())`.
RECURSIVE AddImportsEdgeOnly(_, _, _, _)
AddImportsEdgeOnly(g, file, imps, k) ==
    IF k > Len(imps) THEN g
    ELSE AddImportsEdgeOnly(
             GraphAdd(g, file, resolveImport(file, imps[k].source)),
             file, imps, k + 1)

\* The loop `for (const imp of imports)` of buildGraph from its k-th import.
RECURSIVE AddImports(_, _, _, _)
AddImports(g, file, imps, k) ==
    IF k > Len(imps) THEN g
    ELSE LET resolved == resolveImport(file, imps[k].source)
         IN AddImports(GraphEnsure(GraphAdd(g, file, resolved), resolved),
                       file, imps, k + 1)

\* One iteration of `for (const { file, imports } of fileData)`.
AddFile(g, data) == AddImports(GraphEnsure(g, data.file), data.file, data.imports, 1)

RECURSIVE BuildGraphFrom(_, _, _)
BuildGraphFrom(g, fd, k) ==
    IF k > Len(fd) THEN g ELSE BuildGraphFrom(AddFile(g, fd[k]), fd, k + 1)

\* buildGraph(fileData)
BuildGraph(fd) == BuildGraphFrom(EmptyGraph, fd, 1)

(***************************************************************************)
(* File data buildGraph is run on: three files with at most MaxImports     *)
(* import records among them, and the file data of the tests.              *)
(***************************************************************************)
FileA == <<"a", ".", "j", "s">>
FileB == <<"b", ".", "j", "s">>
FileC == <<"c", ".", "j", "s">>
FileD == <<"d", ".", "j", "s">>
SuppliedFiles == <<FileA, FileB, FileC>>

SpecA == <<".", "/", "a", ".", "j", "s">>
SpecB == <<".", "/", "b">>
SpecC == <<".", "/", "c", ".", "j", "s">>
SpecD == <<".", ".", "/", "d", ".", "j", "s">>
SpecFs == <<"f", "s">>
Specifiers == {SpecA, SpecB, SpecC, SpecD, SpecFs}

ImportRecord(src, kind, ln) == [source |-> src, kind |-> kind, line |-> ln]

\* The import records of `file` among the pairs <<file, specifier>> of es,
\* in their order.
RECURSIVE ImportsOf(_, _, _)
ImportsOf(es, file, k) ==
    IF k > Len(es) THEN <<>>
    ELSE (IF es[k][1] = file
          THEN <<ImportRecord(es[k][2], "import", k)>> ELSE <<>>)
         \o ImportsOf(es, file, k + 1)

FileDataOf(es) ==
    [n \in 1..Len(SuppliedFiles) |->
        [file |-> SuppliedFiles[n],
         imports |-> ImportsOf(es, SuppliedFiles[n], 1)]]

\* A file in a directory that imports from its parent directory, a sibling
\* directory and a package; the same file supplied twice.
FileMain == <<"s", "r", "c", "/", "m", "a", "i", "n", ".", "j", "s">>
FileDataDirectories ==
    <<[file |-> FileMain,
       imports |-> <<ImportRecord(SpecD, "import", 1),
                     ImportRecord(<<".", "/", "l", "i", "b", "/", "u">>,
                                  "require", 2),
                     ImportRecord(SpecFs, "require", 3)>>],
      [file |-> FileMain,
       imports |-> <<ImportRecord(<<".", "/", "m", "a", "i", "n">>,
                                  "dynamic-import", 1)>>]>>

\* a.js holds `import('./b.js')` and b.js holds `import('./a.js')`.
FileDataDynamicCycle ==
    <<[file |-> FileA, imports |-> <<ImportRecord(SpecB, "dynamic-import", 1)>>],
      [file |-> FileB, imports |-> <<ImportRecord(SpecA, "dynamic-import", 1)>>]>>

\* A file in a directory whose name holds a dot: v.1/a.js imports './b' and
\* '../c.js'.
FileInDottedDir == <<"v", ".", "1", "/", "a", ".", "j", "s">>
FileDataDottedDir ==
    <<[file |-> FileInDottedDir,
       imports |-> <<ImportRecord(SpecB, "import", 1),
                     ImportRecord(<<".", ".", "/", "c", ".", "j", "s">>,
                                  "import", 2)>>]>>

BgInputs ==
    {FileDataOf(es) :
        es \in SeqsUpTo(Range(SuppliedFiles) \X Specifiers, MaxImports)}
    \cup {FileDataDirectories, FileDataDynamicCycle, FileDataDottedDir}

(***************************************************************************)
(* buildGraph(fileData) as a state machine: the call, one action per       *)
(* iteration of the loop over the files, and the return.                   *)
(***************************************************************************)
BgCall ==
    /\ NoCall
    /\ fileData' \in BgInputs
    /\ graph' = EmptyGraph /\ bgI' = 0 /\ bgPc' = "loop"
    /\ UNCHANGED <<bgOthers>>

\* The iteration for the file at bgI; `known` tells whether the file is a
\* node already, as the target of an earlier import or as an earlier file.
BgFile(known) ==
    /\ bgPc = "loop" /\ bgI < Len(fileData)
    /\ GraphHas(graph, fileData[bgI + 1].file) = known
    /\ graph' = AddFile(graph, fileData[bgI + 1])
    /\ bgI' = bgI + 1
    /\ UNCHANGED <<fileData, bgPc, bgOthers>>

\* graph.set(file, new Set()) and the file's imports.
BgNewFile == BgFile(FALSE)

\* The file's imports only.
BgKnownFile == BgFile(TRUE)

BgReturn ==
    /\ bgPc = "loop" /\ bgI = Len(fileData)
    /\ bgPc' = "done"
    /\ UNCHANGED <<fileData, graph, bgI, bgOthers>>

BgNext == BgCall \/ BgNewFile \/ BgKnownFile \/ BgReturn

SpecBg == Init /\ [][BgNext]_vars

(***************************************************************************)
(* detectCircularDeps(graph): the closure's state, one step of the search, *)
(* and the search as a whole.                                              *)
(***************************************************************************)
\* path.indexOf(node): 0-based, -1 when the node is not in the array.
IndexOf(p, node) ==
    IF node \in Range(p)
    THEN (CHOOSE n \in 1..Len(p) :
              p[n] = node /\ \A m \in 1..(n - 1) : p[m] # node) - 1
    ELSE -1

\* path.slice(start): a negative start counts from the end.
SliceFrom(p, start) ==
    LET from == IF start < 0
                THEN (IF Len(p) + start < 0 THEN 0 ELSE Len(p) + start)
                ELSE start
    IN SubSeq(p, from + 1, Len(p))

\* `graph.get(node) || new Set()`
Neighbors(g, node) == IF node \in DOMAIN g.edges THEN g.edges[node] ELSE <<>>

\* A frame is an active call of dfs: its node and the number of neighbors
\* its loop has taken.
CdStart ==
    [cycles |-> <<>>, visited |-> {}, inStack |-> {}, path |-> <<>>,
     frames |-> <<>>, outer |-> 0]

\* A search that keeps no record of the nodes it has explored.
MarkVisitedNever(seen, node) == seen

\* visited.add(node)
MarkVisited(seen, node) == seen \cup {node}

\* A cycle reported without its closing node.
CycleChainOpen(p, node) == SliceFrom(p, IndexOf(p, node))

\* `[...path.slice(cycleStart), node]`
CycleChain(p, node) == Append(SliceFrom(p, IndexOf(p, node)), node)

\* A call of dfs that looks at visited before it looks at inStack.
DfsEnterVisitedFirst(st, node) ==
    IF node \in st.visited THEN st
    ELSE [st EXCEPT !.visited = MarkVisited(@, node),
                    !.inStack = @ \cup {node},
                    !.path = Append(@, node),
                    !.frames = Append(@, [node |-> node, next |-> 0])]

\* The call dfs(node, path) up to its loop over the neighbors.
DfsEnter(st, node) ==
    IF node \in st.inStack
    THEN [st EXCEPT !.cycles = Append(@, CycleChain(st.path, node))]
    ELSE IF node \in st.visited THEN st
    ELSE [st EXCEPT !.visited = MarkVisited(@, node),
                    !.inStack = @ \cup {node},
                    !.path = Append(@, node),
                    !.frames = Append(@, [node |-> node, next |-> 0])]

\* The end of a call of dfs: path.pop(), inStack.delete(node); when the
\* call was made by the loop over graph.keys(), that loop moves on.
DfsLeave(st) ==
    LET top == st.frames[Len(st.frames)]
    IN [st EXCEPT !.path = Pop(@), !.inStack = @ \ {top.node},
                  !.frames = Pop(@),
                  !.outer = IF Len(st.frames) = 1 THEN @ + 1 ELSE @]

\* What the search does next.
CdBranch(g, st) ==
    IF st.frames # <<>>
    THEN LET top == st.frames[Len(st.frames)]
             nb == Neighbors(g, top.node)
         IN IF top.next < Len(nb)
            THEN LET node == nb[top.next + 1]
                 IN IF node \in st.inStack THEN "cycle"
                    ELSE IF node \in st.visited THEN "visited"
                    ELSE "descend"
            ELSE "leave"
    ELSE IF st.outer < Len(g.nodes)
    THEN IF g.nodes[st.outer + 1] \in st.visited THEN "skip" ELSE "root"
    ELSE "return"

CdStep(g, st) ==
    LET br == CdBranch(g, st)
    IN IF br \in {"cycle", "visited", "descend"}
       THEN LET n == Len(st.frames)
                top == st.frames[n]
                node == Neighbors(g, top.node)[top.next + 1]
            IN DfsEnter([st EXCEPT !.frames[n].next = @ + 1], node)
       ELSE IF br = "leave" THEN DfsLeave(st)
       ELSE IF br = "skip" THEN [st EXCEPT !.outer = @ + 1]
       ELSE IF br = "root"
       THEN DfsEnter([st EXCEPT !.path = <<>>], g.nodes[st.outer + 1])
       ELSE st

RECURSIVE DetectFrom(_, _)
DetectFrom(g, st) ==
    IF CdBranch(g, st) = "return" THEN st.cycles
    ELSE DetectFrom(g, CdStep(g, st))

\* detectCircularDeps(graph)
DetectCircularDeps(g) == DetectFrom(g, CdStart)

(***************************************************************************)
(* Graphs detectCircularDeps is run on: the graphs buildGraph returns, and *)
(* a Map whose Sets name nodes the Map has no key for.                     *)
(***************************************************************************)
GraphDangling ==
    [nodes |-> <<FileA, FileB>>,
     edges |-> (FileA :> <<FileD, FileB>>) @@ (FileB :> <<FileA, FileD>>)]

CdInputs == {BuildGraph(fd) : fd \in BgInputs} \cup {GraphDangling}

(***************************************************************************)
(* detectCircularDeps(graph) as a state machine: the call, one action per  *)
(* outcome of a call of dfs and of an iteration of the loop over the keys, *)
(* and the return.                                                         *)
(***************************************************************************)
CdCall ==
    /\ NoCall
    /\ cdGraph' \in CdInputs
    /\ cycles' = <<>> /\ visited' = {} /\ inStack' = {} /\ path' = <<>>
    /\ frames' = <<>> /\ cdOuter' = 0 /\ cdPc' = "search"
    /\ UNCHANGED <<cdOthers>>

CdState ==
    [cycles |-> cycles, visited |-> visited, inStack |-> inStack,
     path |-> path, frames |-> frames, outer |-> cdOuter]

CdAct(br) ==
    /\ cdPc = "search" /\ CdBranch(cdGraph, CdState) = br
    /\ LET st == CdStep(cdGraph, CdState)
       IN /\ cycles' = st.cycles /\ visited' = st.visited
          /\ inStack' = st.inStack /\ path' = st.path
          /\ frames' = st.frames /\ cdOuter' = st.outer
    /\ UNCHANGED <<cdGraph, cdPc, cdOthers>>

\* The loop over graph.keys() is at a key that is visited already.
CdSkipKey == CdAct("skip")
\* The loop over graph.keys() calls dfs(node, []).
CdRoot == CdAct("root")
\* dfs is called on a node on the stack: a cycle is pushed.
CdCycle == CdAct("cycle")
\* dfs is called on a node explored earlier: it returns at once.
CdVisited == CdAct("visited")
\* dfs is called on a new node.
CdDescend == CdAct("descend")
\* The loop over the neighbors is over: dfs returns.
CdLeave == CdAct("leave")

CdReturn ==
    /\ cdPc = "search" /\ CdBranch(cdGraph, CdState) = "return"
    /\ cdPc' = "done"
    /\ UNCHANGED <<cdGraph, cycles, visited, inStack, path, frames, cdOuter,
                   cdOthers>>

CdNext ==
    \/ CdCall \/ CdSkipKey \/ CdRoot \/ CdCycle \/ CdVisited \/ CdDescend
    \/ CdLeave \/ CdReturn

SpecCd == Init /\ [][CdNext]_vars

(***************************************************************************)
(* dependency-mapper.js: parseImports.                                     *)
(***************************************************************************)
KwImport == <<"i", "m", "p", "o", "r", "t">>
KwExport == <<"e", "x", "p", "o", "r", "t">>
KwFrom == <<"f", "r", "o", "m">>
IdRequire == <<"r", "e", "q", "u", "i", "r", "e">>
QuoteChars == {SQ, DQ, BT}

\* stripQuotes(s): s.replace(/^['"`]|['"`]$/g, '')
stripQuotes(s) ==
    LET t == IF s # <<>> /\ s[1] \in QuoteChars THEN Tail(s) ELSE s
    IN IF t # <<>> /\ t[Len(t)] \in QuoteChars THEN Pop(t) ELSE t

\* `sig[k]` is defined, and `!sig[k]` is false.
Defined(sig, k) == k < Len(sig)

\* The scan for `from` from index j on: it stops at `from`, at a `;`, at the
\* end and, when stopAtImport, at another `import`.
RECURSIVE ScanForFrom(_, _, _)
ScanForFrom(sig, j, stopAtImport) ==
    IF j >= Len(sig) THEN j
    ELSE LET t == TokAt(sig, j)
         IN IF IsKeyword(t, KwFrom) THEN j
            ELSE IF IsPunct(t, ";") THEN j
            ELSE IF stopAtImport /\ IsKeyword(t, KwImport) THEN j
            ELSE ScanForFrom(sig, j + 1, stopAtImport)

\* The record pushed after the scan has stopped at j, if any: `from` is at
\* j and a string follows it.
FromRecord(sig, k, j, kind) ==
    IF /\ j < Len(sig) /\ IsKeyword(TokAt(sig, j), KwFrom)
       /\ Defined(sig, j + 1) /\ TokAt(sig, j + 1).type = "string"
    THEN <<ImportRecord(stripQuotes(TokAt(sig, j + 1).value), kind,
                        TokAt(sig, k).line)>>
    ELSE <<>>

\* The branch the loop body takes at index k.
ImBranch(sig, k) ==
    LET tok == TokAt(sig, k)
    IN IF IsKeyword(tok, KwImport)
       THEN IF ~Defined(sig, k + 1) THEN "import-last"
            ELSE IF IsPunct(TokAt(sig, k + 1), "(") THEN "dynamic"
            ELSE "static"
       ELSE IF IsKeyword(tok, KwExport) THEN "export"
       ELSE IF tok.type = "identifier" /\ tok.value = IdRequire THEN "require"
       ELSE "other"

\* The records the loop body pushes at index k.
ImRecords(sig, k) ==
    LET br == ImBranch(sig, k)
        tok == TokAt(sig, k)
    IN IF br = "dynamic"
       THEN IF /\ Defined(sig, k + 2)
               /\ TokAt(sig, k + 2).type \in {"string", "template"}
            THEN <<ImportRecord(stripQuotes(TokAt(sig, k + 2).value),
                                "dynamic-import", tok.line)>>
            ELSE <<>>
       ELSE IF br = "static"
       THEN FromRecord(sig, k, ScanForFrom(sig, k + 1, TRUE), "import")
       ELSE IF br = "export"
       THEN FromRecord(sig, k, ScanForFrom(sig, k + 1, FALSE), "export-from")
       ELSE IF br = "require"
       THEN IF /\ Defined(sig, k + 1) /\ IsPunct(TokAt(sig, k + 1), "(")
               /\ Defined(sig, k + 2) /\ TokAt(sig, k + 2).type = "string"
            THEN <<ImportRecord(stripQuotes(TokAt(sig, k + 2).value),
                                "require", tok.line)>>
            ELSE <<>>
       ELSE <<>>

RECURSIVE ParseFrom(_, _, _)
ParseFrom(sig, k, recs) ==
    IF k >= Len(sig) THEN recs
    ELSE ParseFrom(sig, k + 1, recs \o ImRecords(sig, k))

\* parseImports(tokens, filePath)
ParseImports(ts, filePath) ==
    [file |-> filePath, imports |-> ParseFrom(Significant(ts), 0, <<>>)]

(***************************************************************************)
(* Token arrays parseImports is run on: every array of at most MaxPhrases  *)
(* phrases, and the tokens of example sources.                             *)
(***************************************************************************)
LxImport == <<"keyword", KwImport>>
LxExport == <<"keyword", KwExport>>
LxFrom == <<"keyword", KwFrom>>
LxRequire == <<"identifier", IdRequire>>
LxStringA == <<"string", <<SQ, ".", "/", "a", SQ>>>>
LxStringB == <<"string", <<DQ, "b", DQ>>>>

ImPhrases ==
    {<<LxImport, LxX>>, <<LxFrom, LxStringA>>, <<LxSemicolon>>,
     <<LxExport, LxX>>, <<LxImport, LxOpenParen>>, <<LxRequire, LxOpenParen>>,
     <<LxStringB, LxCloseParen>>, <<LxImport>>}

\* test 'parses ESM imports'
SrcEsmImports ==
    <<
      "i", "m", "p", "o", "r", "t", " ", "{", " ", "f", "o", "o", " ", "}",
      " ", "f", "r", "o", "m", " ", "'", ".", "/", "f", "o", "o", ".", "j",
      "s", "'", ";", NL, "i", "m", "p", "o", "r", "t", " ", "b", "a", "r",
      " ", "f", "r", "o", "m", " ", "'", ".", "/", "b", "a", "r", ".", "j",
      "s", "'", ";"
    >>
\* test 'parses wildcard import'
SrcWildcardImport ==
    <<
      "i", "m", "p", "o", "r", "t", " ", "*", " ", "a", "s", " ", "n", "s",
      " ", "f", "r", "o", "m", " ", "'", ".", "/", "u", "t", "i", "l", "s",
      ".", "j", "s", "'", ";"
    >>
\* test 'parses require()'
SrcRequire ==
    <<
      "c", "o", "n", "s", "t", " ", "f", "s", " ", "=", " ", "r", "e", "q",
      "u", "i", "r", "e", "(", "'", "f", "s", "'", ")", ";", NL, "c", "o",
      "n", "s", "t", " ", "p", "a", "t", "h", " ", "=", " ", "r", "e", "q",
      "u", "i", "r", "e", "(", "'", "n", "o", "d", "e", ":", "p", "a", "t",
      "h", "'", ")", ";"
    >>
\* test 'parses export ... from'
SrcExportFrom ==
    <<
      "e", "x", "p", "o", "r", "t", " ", "{", " ", "f", "o", "o", " ", "}",
      " ", "f", "r", "o", "m", " ", "'", ".", "/", "f", "o", "o", ".", "j",
      "s", "'", ";"
    >>
\* test 'parses dynamic import'
SrcDynamicImport ==
    <<
      "c", "o", "n", "s", "t", " ", "m", "o", "d", " ", "=", " ", "a", "w",
      "a", "i", "t", " ", "i", "m", "p", "o", "r", "t", "(", "'", ".", "/",
      "p", "l", "u", "g", "i", "n", ".", "j", "s", "'", ")", ";"
    >>
\* test 'handles no imports'
SrcNoImports ==
    <<
      "e", "x", "p", "o", "r", "t", " ", "c", "o", "n", "s", "t", " ", "x",
      " ", "=", " ", "4", "2", ";"
    >>
\* test 'reports import line numbers'
SrcImportLines ==
    <<
      NL, "i", "m", "p", "o", "r", "t", " ", "f", "o", "o", " ", "f", "r",
      "o", "m", " ", "'", ".", "/", "f", "o", "o", ".", "j", "s", "'", ";",
      NL, "i", "m", "p", "o", "r", "t", " ", "b", "a", "r", " ", "f", "r",
      "o", "m", " ", "'", ".", "/", "b", "a", "r", ".", "j", "s", "'", ";"
    >>
\* an export without `from` and without `;`, then a re-export
SrcExportThenReexport ==
    <<
      "e", "x", "p", "o", "r", "t", " ", "d", "e", "f", "a", "u", "l", "t",
      " ", "c", "l", "a", "s", "s", " ", "A", " ", "{", "}", NL, "e", "x",
      "p", "o", "r", "t", " ", "{", " ", "b", " ", "}", " ", "f", "r", "o",
      "m", " ", "'", ".", "/", "b", ".", "j", "s", "'", ";"
    >>
\* comments among the tokens, `export` as the last token
SrcCommentedImport ==
    <<
      "i", "m", "p", "o", "r", "t", " ", "/", "*", " ", "c", " ", "*", "/",
      " ", "x", " ", "f", "r", "o", "m", " ", "\"", ".", "/", "x", "\"", ";",
      " ", "/", "/", " ", "i", "m", "p", "o", "r", "t", " ", "y", " ", "f",
      "r", "o", "m", " ", "'", ".", "/", "y", "'", NL, "e", "x", "p", "o",
      "r", "t"
    >>
\* an import without `from`, a require of a name, `import` as the last token
SrcSideEffectImport ==
    <<
      "i", "m", "p", "o", "r", "t", " ", "'", ".", "/", "s", "i", "d", "e",
      ".", "j", "s", "'", ";", NL, "r", "e", "q", "u", "i", "r", "e", "(",
      "n", "a", "m", "e", ")", ";", NL, "i", "m", "p", "o", "r", "t"
    >>
\* A dynamic import whose argument is a template literal.
SrcTemplateImport ==
    <<"i", "m", "p", "o", "r", "t", "(", BT, ".", "/", "t", BT, ")", ";">>

ImExamples ==
    {SrcEsmImports, SrcWildcardImport, SrcRequire,
     SrcExportFrom, SrcDynamicImport, SrcNoImports,
     SrcImportLines, SrcExportThenReexport, SrcCommentedImport,
     SrcSideEffectImport,
     SrcTemplateImport}

ImInputs ==
    {LayOut(Flatten(ps)) : ps \in SeqsUpTo(ImPhrases, MaxPhrases)}
    \cup {Tokenize(src) : src \in ImExamples}

\* The filePath argument: a string, or left out.
FileUnknown == <<"<", "u", "n", "k", "n", "o", "w", "n", ">">>
FilePathArgs == {[type |-> "string", value |-> FileA], JsUndefined}

(***************************************************************************)
(* parseImports(tokens, filePath) as a state machine: the call, one action *)
(* per branch of the loop body, and the return.                            *)
(***************************************************************************)
ImCall ==
    /\ NoCall
    /\ imTokens' \in ImInputs
    /\ \E arg \in FilePathArgs :
          imFile' = IF arg.type = "undefined" THEN FileUnknown ELSE arg.value
    /\ imI' = 0 /\ imports' = <<>> /\ imPc' = "loop"
    /\ UNCHANGED <<imOthers>>

ImSig == Significant(imTokens)

ImAct(br) ==
    /\ imPc = "loop" /\ imI < Len(ImSig) /\ ImBranch(ImSig, imI) = br
    /\ imports' = imports \o ImRecords(ImSig, imI)
    /\ imI' = imI + 1
    /\ UNCHANGED <<imTokens, imFile, imPc, imOthers>>

\* `import` is the last token: `if (!next) continue`.
ImImportLast == ImAct("import-last")
\* `import` followed by `(`.
ImDynamic == ImAct("dynamic")
\* `import` followed by anything else.
ImStatic == ImAct("static")
\* `export`
ImExport == ImAct("export")
\* The identifier `require`.
ImRequire == ImAct("require")
\* Any other token.
ImOther == ImAct("other")

\* `return { file: filePath, imports }`
ImReturn ==
    /\ imPc = "loop" /\ imI >= Len(ImSig)
    /\ imPc' = "done"
    /\ UNCHANGED <<imTokens, imFile, imI, imports, imOthers>>

ImNext ==
    \/ ImCall \/ ImImportLast \/ ImDynamic \/ ImStatic \/ ImExport
    \/ ImRequire \/ ImOther \/ ImReturn

SpecIm == Init /\ [][ImNext]_vars

(***************************************************************************)
(* analyze(source) with no options, as far as its three analyzers: the     *)
(* source is tokenized, and analyzeComplexity(tokens),                     *)
(* detectDeadCode(tokens, lines) and parseImports(tokens, '<source>') run  *)
(* one after the other.  The sources are those of at most MaxPhrases       *)
(* tokens that leave a construct open, and all the example sources.        *)
(***************************************************************************)
FileSource == <<"<", "s", "o", "u", "r", "c", "e", ">">>

AzPhrases ==
    {<<LxFunction>>, <<LxArrow>>, <<LxImport>>, <<LxExport>>, <<LxReturn>>,
     <<LxOpenBrace>>, <<LxCloseBrace>>, <<LxOpenParen>>, <<LxCloseParen>>}

AzSources ==
    {LayOutText(Flatten(ps)) : ps \in SeqsUpTo(AzPhrases, MaxPhrases)}
    \cup CxExamples \cup DcExamples \cup ImExamples

AzCall ==
    /\ NoCall
    /\ \E src \in AzSources :
          \E toks \in {Tokenize(src)} :
             /\ cxTokens' = toks /\ dcTokens' = toks /\ imTokens' = toks
             /\ dcLines' = SplitLines(src)
    /\ cxI' = 0 /\ fnDefs' = <<>> /\ fnK' = 0 /\ results' = <<>>
    /\ cxPc' = "discover"
    /\ dcI' = 0 /\ issues' = <<>> /\ dcPc' = "scan"
    /\ imFile' = FileSource /\ imI' = 0 /\ imports' = <<>> /\ imPc' = "loop"
    /\ UNCHANGED <<tokVars, bgVars, cdVars, anVars, newVars>>

AzComplexity ==
    \/ CxSkipComment \/ CxFunctionKeyword \/ CxArrow \/ CxOtherToken
    \/ CxDiscovered \/ CxScore \/ CxReturn

AzDeadCode ==
    /\ cxPc = "done"
    /\ \/ DcNotJump \/ DcBraceless \/ DcNothingFollows \/ DcBlockEnds
       \/ DcOtherDepth \/ DcReport \/ DcReturn

AzImports ==
    /\ cxPc = "done" /\ dcPc = "done"
    /\ \/ ImImportLast \/ ImDynamic \/ ImStatic \/ ImExport \/ ImRequire
       \/ ImOther \/ ImReturn

AzNext == AzCall \/ AzComplexity \/ AzDeadCode \/ AzImports

SpecAz == Init /\ [][AzNext]_vars

(***************************************************************************)
(* The analyzers as functions of their arguments.                          *)
(***************************************************************************)
\* What one iteration of discoverFunctions finds at index k.
Discovered(ts, k) ==
    LET t == TokAt(ts, k)
    IN IF t.type = "comment" THEN <<>>
       ELSE IF IsKeyword(t, KwFunction) THEN DiscoverFunctionKeyword(ts, k)
       ELSE IF IsOperator(t, <<"=", ">">>) THEN DiscoverArrow(ts, k)
       ELSE <<>>

RECURSIVE DiscoverFrom(_, _)
DiscoverFrom(ts, k) ==
    IF k >= Len(ts) THEN <<>> ELSE Discovered(ts, k) \o DiscoverFrom(ts, k + 1)

\* discoverFunctions(tokens)
DiscoverFunctions(ts) == DiscoverFrom(ts, 0)

\* analyzeComplexity(tokens)
AnalyzeComplexity(ts) ==
    LET defs == DiscoverFunctions(ts)
    IN [n \in 1..Len(defs) |-> ScoreFunction(ts, defs[n])]

\* The loop of detectDeadCode from index k on.
RECURSIVE DeadCodeFrom(_, _, _, _)
DeadCodeFrom(sig, lines, k, found) ==
    IF k >= Len(sig) THEN found
    ELSE IF ~IsJump(TokAt(sig, k)) \/ isInsideBracelessControl(sig, k)
    THEN DeadCodeFrom(sig, lines, k + 1, found)
    ELSE LET j == StatementEnd(sig, k + 1, 0)
         IN IF \/ j >= Len(sig) \/ BlockEnds(sig, j)
               \/ DepthBefore(sig, j) # DepthBefore(sig, k)
            THEN DeadCodeFrom(sig, lines, k + 1, found)
            ELSE DeadCodeFrom(sig, lines, (j - 1) + 1,
                     Append(found,
                            DeadCodeIssue(TokAt(sig, k), TokAt(sig, j), lines)))

\* detectDeadCode(tokens, lines)
DetectDeadCode(ts, lines) == DeadCodeFrom(Significant(ts), lines, 0, <<>>)

(***************************************************************************)
(* style-checker.js: checkStyle(source, tokens, rules).                    *)
(***************************************************************************)
DEFAULT_RULES ==
    [maxLineLength |-> 120, noVar |-> TRUE, noConsole |-> TRUE,
     camelCase |-> TRUE, noTrailingWhitespace |-> TRUE, noDebugger |-> TRUE]

\* `{}` passed for the rules, or nothing.
NoRules == [k \in {} |-> TRUE]

\* `{ ...DEFAULT_RULES, ...rules }`
Config(rules) ==
    [k \in DOMAIN DEFAULT_RULES \cup DOMAIN rules |->
        IF k \in DOMAIN rules THEN rules[k] ELSE DEFAULT_RULES[k]]

CAMEL_WHITELIST ==
    {<<"U", "R", "L">>,
     <<"I", "D">>,
     <<"O", "K">>,
     <<"A", "P", "I">>,
     <<"H", "T", "T", "P">>,
     <<"H", "T", "T", "P", "S">>,
     <<"J", "S", "O", "N">>,
     <<"H", "T", "M", "L">>,
     <<"C", "S", "S">>,
     <<"D", "O", "M">>,
     <<"R", "P", "C">>,
     <<"S", "Q", "L">>,
     <<"T", "C", "P">>,
     <<"U", "D", "P">>,
     <<"T", "T", "L">>,
     <<"U", "U", "I", "D">>,
     <<"X", "M", "L">>}

AllIn(s, S) == \A k \in 1..Len(s) : s[k] \in S

Alphanumerics == LowerLetters \cup UpperLetters \cup Digits

\* /^[first][rest]*$/ tested on the name from position k on.
FirstThenRest(name, k, first, rest) ==
    /\ Len(name) >= k /\ name[k] \in first
    /\ AllIn(SubSeq(name, k + 1, Len(name)), rest)

\* The number of leading underscores of the name.
RECURSIVE LeadingUnderscores(_)
LeadingUnderscores(name) ==
    IF name # <<>> /\ Head(name) = "_"
    THEN 1 + LeadingUnderscores(Tail(name)) ELSE 0

isValidIdentifier(name) ==
    \/ name \in CAMEL_WHITELIST
    \/ Len(name) = 1
    \* /^[A-Z][A-Z0-9_]*$/
    \/ FirstThenRest(name, 1, UpperLetters, UpperLetters \cup Digits \cup {"_"})
    \* /^[A-Z][a-zA-Z0-9]*$/
    \/ FirstThenRest(name, 1, UpperLetters, Alphanumerics)
    \* /^_?[a-z][a-zA-Z0-9]*$/
    \/ FirstThenRest(name, 1, LowerLetters, Alphanumerics)
    \/ name[1] = "_" /\ FirstThenRest(name, 2, LowerLetters, Alphanumerics)
    \* /^_[a-z][a-zA-Z0-9]*$/
    \/ name[1] = "_" /\ FirstThenRest(name, 2, LowerLetters, Alphanumerics)
    \* /^__?[a-zA-Z][a-zA-Z0-9]*$/
    \/ /\ LeadingUnderscores(name) \in {1, 2}
       /\ FirstThenRest(name, LeadingUnderscores(name) + 1,
                        LowerLetters \cup UpperLetters, Alphanumerics)
    \* /^\$[a-zA-Z0-9_]*$/
    \/ FirstThenRest(name, 1, {"$"}, Alphanumerics \cup {"_"})

\* The length of the run of spaces and tabs that ends the line.
RECURSIVE TrailingBlanks(_)
TrailingBlanks(ln) ==
    IF ln # <<>> /\ ln[Len(ln)] \in {" ", "\t"}
    THEN 1 + TrailingBlanks(SubSeq(ln, 1, Len(ln) - 1)) ELSE 0

\* `Line is ${ln.length} characters (max ${cfg.maxLineLength})`
LineLengthMessage(len, max) ==
    <<"L", "i", "n", "e", " ", "i", "s", " ">>
      \o Decimal(len) \o
    <<" ", "c", "h", "a", "r", "a", "c", "t", "e", "r", "s", " ", "(", "m",
      "a", "x", " ">>
      \o Decimal(max) \o <<")">>

TrailingWhitespaceMessage ==
    <<"T", "r", "a", "i", "l", "i", "n", "g", " ", "w", "h", "i", "t", "e",
      "s", "p", "a", "c", "e">>

NoVarMessage ==
    <<"U", "s", "e", " ", "'", "l", "e", "t", "'", " ", "o", "r", " ", "'",
      "c", "o", "n", "s", "t", "'", " ", "i", "n", "s", "t", "e", "a", "d",
      " ", "o", "f", " ", "'", "v", "a", "r", "'">>

NoDebuggerMessage ==
    <<"'", "d", "e", "b", "u", "g", "g", "e", "r", "'", " ", "s", "t", "a",
      "t", "e", "m", "e", "n", "t", " ", "s", "h", "o", "u", "l", "d", " ",
      "n", "o", "t", " ", "b", "e", " ", "i", "n", " ", "p", "r", "o", "d",
      "u", "c", "t", "i", "o", "n", " ", "c", "o", "d", "e">>

\* `console.${methodName} should not be used in production code`
NoConsoleMessage(methodName) ==
    <<"c", "o", "n", "s", "o", "l", "e", ".">>
      \o methodName \o
    <<" ", "s", "h", "o", "u", "l", "d", " ", "n", "o", "t", " ", "b", "e",
      " ", "u", "s", "e", "d", " ", "i", "n", " ", "p", "r", "o", "d", "u",
      "c", "t", "i", "o", "n", " ", "c", "o", "d", "e">>

\* `Identifier '${tok.value}' does not follow naming conventions (...)`
CamelCaseMessage(name) ==
    <<"I", "d", "e", "n", "t", "i", "f", "i", "e", "r", " ", "'">>
      \o name \o
    <<"'", " ", "d", "o", "e", "s", " ", "n", "o", "t", " ", "f", "o", "l",
      "l", "o", "w", " ", "n", "a", "m", "i", "n", "g", " ", "c", "o", "n",
      "v", "e", "n", "t", "i", "o", "n", "s", " ", "(", "c", "a", "m", "e",
      "l", "C", "a", "s", "e", "/", "P", "a", "s", "c", "a", "l", "C", "a",
      "s", "e", "/", "S", "C", "R", "E", "A", "M", "I", "N", "G", "_", "S",
      "N", "A", "K", "E", ")">>

StyleIssue(ln, cl, rule, message) ==
    [line |-> ln, col |-> cl, rule |-> rule, message |-> message]

\* The line-level checks on line number lineNum.
LineIssues(ln, lineNum, cfg) ==
    (IF cfg.maxLineLength # 0 /\ Len(ln) > cfg.maxLineLength
     THEN <<StyleIssue(lineNum, cfg.maxLineLength + 1, "max-line-length",
                       LineLengthMessage(Len(ln), cfg.maxLineLength))>>
     ELSE <<>>)
    \o
    (IF cfg.noTrailingWhitespace /\ TrailingBlanks(ln) > 0
     THEN <<StyleIssue(lineNum, (Len(ln) - TrailingBlanks(ln)) + 1,
                       "no-trailing-whitespace", TrailingWhitespaceMessage)>>
     ELSE <<>>)

\* findPrevSignificant(tokens, idx, 1), or NoToken for null.
findPrevSignificant(ts, idx) == PrevSignificant(ts, idx + 1)

\* The token-level checks on tokens[k].
TokenIssues(ts, k, cfg) ==
    LET tok == TokAt(ts, k)
        prev == IF k > 0 THEN TokAt(ts, k - 1) ELSE NoToken
        prevKeyword == findPrevSignificant(ts, k)
    IN IF tok.type = "comment" THEN <<>>
       ELSE
        (IF cfg.noVar /\ IsKeyword(tok, <<"v", "a", "r">>)
         THEN <<StyleIssue(tok.line, tok.col, "no-var", NoVarMessage)>>
         ELSE <<>>)
        \o
        (IF cfg.noDebugger
               /\ IsKeyword(tok, <<"d", "e", "b", "u", "g", "g", "e", "r">>)
         THEN <<StyleIssue(tok.line, tok.col, "no-debugger",
                           NoDebuggerMessage)>>
         ELSE <<>>)
        \o
        (IF /\ cfg.noConsole /\ tok.type = "identifier"
            /\ tok.value = <<"c", "o", "n", "s", "o", "l", "e">>
            /\ k + 1 < Len(ts) /\ IsPunct(TokAt(ts, k + 1), ".")
         THEN <<StyleIssue(tok.line, tok.col, "no-console",
                   NoConsoleMessage(IF k + 2 < Len(ts)
                                    THEN TokAt(ts, k + 2).value ELSE <<>>))>>
         ELSE <<>>)
        \o
        (IF /\ cfg.camelCase /\ tok.type = "identifier"
            /\ ~(prev # NoToken /\ IsPunct(prev, "."))
            /\ ~(/\ prevKeyword # NoToken
                 /\ \/ IsKeyword(prevKeyword, KwFrom)
                    \/ IsKeyword(prevKeyword, KwImport))
            /\ ~isValidIdentifier(tok.value)
         THEN <<StyleIssue(tok.line, tok.col, "camel-case",
                           CamelCaseMessage(tok.value))>>
         ELSE <<>>)

\* `a.line !== b.line ? a.line - b.line : a.col - b.col` is not positive.
NotAfter(a, b) == a.line < b.line \/ (a.line = b.line /\ a.col <= b.col)

\* Array.prototype.sort is stable: an issue goes behind those already there
\* that are not after it.
RECURSIVE SortIssues(_)
SortIssues(is) ==
    IF is = <<>> THEN <<>>
    ELSE LET sorted == SortIssues(SubSeq(is, 1, Len(is) - 1))
             x == is[Len(is)]
             n == Cardinality({k \in 1..Len(sorted) : NotAfter(sorted[k], x)})
         IN SubSeq(sorted, 1, n) \o <<x>> \o SubSeq(sorted, n + 1, Len(sorted))

\* checkStyle(source, tokens, rules)
checkStyle(src, ts, rules) ==
    LET cfg == Config(rules)
        ls == SplitLines(src)
    IN SortIssues(
          Flatten([n \in 1..Len(ls) |-> LineIssues(ls[n], n, cfg)])
          \o Flatten([n \in 1..Len(ts) |-> TokenIssues(ts, n - 1, cfg)]))

(***************************************************************************)
(* index.js: analyze(source, options).                                     *)
(***************************************************************************)
JsString(s) == [type |-> "string", value |-> s]
JsNull == [type |-> "object", value |-> "null"]
JsNumber42 == [type |-> "number", value |-> 42]
JsArray == [type |-> "object", value |-> "array"]

\* An error thrown by something other than a TypeError.
SourceErrorPlain ==
    [outcome |-> "throw", error |-> "Error",
     message |-> "analyze: source must be a string"]

\* `throw new TypeError('analyze: source must be a string')`
SourceError ==
    [outcome |-> "throw", error |-> "TypeError",
     message |-> "analyze: source must be a string"]

\* Destructuring `null` throws a TypeError of the engine's: the first
\* property read, `file`, fails.
DestructureError ==
    [outcome |-> "throw", error |-> "TypeError",
     message |-> "Cannot read properties of null (reading 'file')"]

\* An options object with the properties given.
OptionsObject(fields) == [given |-> TRUE, isNull |-> FALSE, fields |-> fields]

\* `{}` passed for the options, or nothing.
NoFields == [k \in {} |-> TRUE]

OptionDefaults ==
    [file |-> FileSource, rules |-> NoRules, skipComplexity |-> FALSE,
     skipDeadCode |-> FALSE, skipStyle |-> FALSE,
     skipDependencies |-> FALSE, otherFiles |-> <<>>]

\* `const { file = '<source>', rules = {}, skipComplexity = false, ... } =
\* options`: the seven names, each with its default where the object has
\* no such property.
Options(o) ==
    [k \in DOMAIN OptionDefaults |->
        IF k \in DOMAIN o.fields THEN o.fields[k] ELSE OptionDefaults[k]]

\* `null` passed for the options.
NullOptions == [given |-> TRUE, isNull |-> TRUE]

RECURSIVE SumComplexity(_)
SumComplexity(cs) ==
    IF cs = <<>> THEN 0 ELSE cs[1].complexity + SumComplexity(Tail(cs))

MaxOf(S) == CHOOSE m \in S : \A n \in S : m >= n

\* a / b brought to den <= num < 2 * den by doubling one of the two: the
\* leading bit of the quotient's significand is then 1.
RECURSIVE Normalised(_, _)
Normalised(num, den) ==
    IF num < den THEN Normalised(2 * num, den)
    ELSE IF num >= 2 * den THEN Normalised(num, 2 * den)
    ELSE [num |-> num, den |-> den]

\* k further bits of the long division with remainder r: the remainder
\* left and the last bit produced.
RECURSIVE DivisionBits(_, _, _, _)
DivisionBits(r, den, k, lastBit) ==
    IF k = 0 THEN [r |-> r, lastBit |-> lastBit]
    ELSE IF 2 * r >= den THEN DivisionBits(2 * r - den, den, k - 1, 1)
    ELSE DivisionBits(2 * r, den, k - 1, 0)

\* The double `sum / n` (53 significant bits, round to nearest, ties to
\* even) is smaller than the quotient of the two integers.
DoubleBelow(sum, n) ==
    LET nd == Normalised(sum, n)
        d == DivisionBits(nd.num - nd.den, nd.den, 52, 1)
    IN /\ d.r > 0
       /\ \/ 2 * d.r < nd.den
          \/ 2 * d.r = nd.den /\ d.lastBit = 0

\* `+(sum / length).toFixed(2)` in hundredths: toFixed rounds the double to
\* two decimals, a tie going up; a quotient that is a tie in decimal and
\* whose double lies below it goes down (43 / 40 gives 1.07).
AvgHundredths(sum, n) ==
    LET twice == (200 * sum) \div n
        tie == (200 * sum) % n = 0 /\ twice % 2 = 1
    IN IF sum > 0 /\ tie /\ DoubleBelow(sum, n)
       THEN (twice - 1) \div 2
       ELSE (200 * sum + n) \div (2 * n)

\* The dependencies section of analyze.
Dependencies(file, toks, otherFiles) ==
    LET allFiles == <<[file |-> file, tokens |-> toks]>> \o otherFiles
        allData == [n \in 1..Len(allFiles) |->
                       ParseImports(allFiles[n].tokens, allFiles[n].file)]
        g == BuildGraph(allData)
        found == {n \in 1..Len(allData) : allData[n].file = file}
        myImports == IF found = {} THEN [file |-> file, imports |-> <<>>]
                     ELSE allData[Least(found)]
    IN [isNull |-> FALSE, graph |-> g, cycles |-> DetectCircularDeps(g),
        allImports |-> <<myImports>>, imports |-> myImports.imports]

NullDependencies == [isNull |-> TRUE]

\* `dependencies?.cycles?.length || 0`
CircularDeps(deps) == IF deps.isNull THEN 0 ELSE Len(deps.cycles)

\* The value analyze(source, options) returns for a string, its tokens and
\* the destructured options.
AnalyzeResult(src, toks, o) ==
    LET lines == SplitLines(src)
        complexity == IF o.skipComplexity THEN <<>> ELSE AnalyzeComplexity(toks)
        deadCode == IF o.skipDeadCode THEN <<>> ELSE DetectDeadCode(toks, lines)
        style == IF o.skipStyle THEN <<>> ELSE checkStyle(src, toks, o.rules)
        deps == IF o.skipDependencies THEN NullDependencies
                ELSE Dependencies(o.file, toks, o.otherFiles)
    IN [outcome |-> "return", file |-> o.file, tokens |-> toks,
        complexity |-> complexity, deadCode |-> deadCode, style |-> style,
        dependencies |-> deps,
        summary |->
           [totalTokens |-> Len(toks), functions |-> Len(complexity),
            avgComplexityHundredths |->
               IF Len(complexity) > 0
               THEN AvgHundredths(SumComplexity(complexity), Len(complexity))
               ELSE 0,
            maxComplexity |->
               IF Len(complexity) > 0
               THEN MaxOf({complexity[n].complexity : n \in 1..Len(complexity)})
               ELSE 0,
            deadCodeIssues |-> Len(deadCode), styleIssues |-> Len(style),
            circularDeps |-> CircularDeps(deps),
            totalIssues |-> Len(deadCode) + Len(style) + CircularDeps(deps)]]

(***************************************************************************)
(* The arguments analyze is called with: example sources and values that   *)
(* are not strings; no options, the options of the tests, every            *)
(* combination of the skip flags with and without a file name, rules and a *)
(* second file, and `null`.                                                *)
(***************************************************************************)
\* test 'detects circular dependency': a.js
SrcImportsB ==
    <<
      "i", "m", "p", "o", "r", "t", " ", "x", " ", "f", "r", "o", "m", " ",
      "'", ".", "/", "b", ".", "j", "s", "'", ";"
    >>
\* test 'detects circular dependency': the file that closes the cycle
SrcImportsA ==
    <<
      "i", "m", "p", "o", "r", "t", " ", "z", " ", "f", "r", "o", "m", " ",
      "'", ".", "/", "a", ".", "j", "s", "'", ";"
    >>

\* test 'detects dead code + style issues together'
SrcDeadAndStyle ==
    <<
      "f", "u", "n", "c", "t", "i", "o", "n", " ", "f", "(", ")", " ", "{", NL,
      " ", " ", "v", "a", "r", " ", "x", " ", "=", " ", "1", ";", NL,
      " ", " ", "r", "e", "t", "u", "r", "n", " ", "x", ";", NL,
      " ", " ", "c", "o", "n", "s", "o", "l", "e", ".", "l", "o", "g", "(",
      SQ, "d", "e", "a", "d", SQ, ")", ";", NL,
      "}"
    >>
\* test 'flags trailing whitespace', with an identifier that is not
\* camelCase
SrcTrailingWhitespace ==
    <<
      "c", "o", "n", "s", "t", " ", "m", "y", "_", "x", " ", "=", " ", "1",
      ";", " ", " ", " ", NL,
      "d", "e", "b", "u", "g", "g", "e", "r", ";"
    >>

AnSourceTexts ==
    {<<>>, SrcImportsB, SrcIfReturn, SrcDeadAfterReturn, SrcTwoJumps,
     SrcArrowFunction, SrcSwitchDefaultOnly, SrcNestedFunctions,
     SrcEsmImports,
     SrcExportThenReexport, SrcRequire, SrcRegexVsDivision, SrcDeadAndStyle,
     SrcTrailingWhitespace}

AnSources ==
    {JsString(src) : src \in AnSourceTexts}
    \cup {JsNumber42, JsNull, JsUndefined, JsArray}

\* The tokens of `import z from './a.js';` as tokenize returns them.
TokensImportsA ==
    <<Tok("keyword", <<"i", "m", "p", "o", "r", "t">>, 1, 1),
      Tok("identifier", <<"z">>, 1, 8),
      Tok("keyword", <<"f", "r", "o", "m">>, 1, 10),
      Tok("string", <<"'", ".", "/", "a", ".", "j", "s", "'">>, 1, 15),
      Tok("punctuation", <<";">>, 1, 23)>>

OtherFileB == [file |-> FileB, tokens |-> TokensImportsA]

\* tests 'detects var in own codebase fixture', 'detects dead code + style
\* issues together', 'can disable rules', 'respects custom maxLineLength'
AnRules ==
    {NoRules, [noVar |-> TRUE], [noVar |-> TRUE, noConsole |-> TRUE],
     [noVar |-> FALSE], [maxLineLength |-> 10]}

AnOptionSets ==
    {OptionsObject(NoFields), OptionsObject([file |-> FileA]), NullOptions}
    \cup {OptionsObject([rules |-> r]) : r \in AnRules}
    \cup {OptionsObject([file |-> file, skipComplexity |-> sc,
                         skipDeadCode |-> sd, skipStyle |-> ss,
                         skipDependencies |-> sp, otherFiles |-> others]) :
             file \in {FileSource, FileA}, sc \in BOOLEAN, sd \in BOOLEAN,
             ss \in BOOLEAN, sp \in BOOLEAN,
             others \in {<<>>, <<OtherFileB>>}}

(***************************************************************************)
(* analyze(source, options) as a state machine: the call and its three     *)
(* outcomes.                                                               *)
(***************************************************************************)
AnCall ==
    /\ NoCall
    /\ anSource' \in AnSources /\ anOptions' \in AnOptionSets
    /\ anResult' = NoResult /\ anPc' = "called"
    /\ UNCHANGED <<anOthers>>

\* The destructuring of the options throws.
AnBadOptions ==
    /\ anPc = "called" /\ anOptions.isNull
    /\ anResult' = DestructureError /\ anPc' = "thrown"
    /\ UNCHANGED <<anSource, anOptions, anOthers>>

\* `if (typeof source !== 'string') throw new TypeError(...)`
AnThrow ==
    /\ anPc = "called" /\ ~anOptions.isNull /\ anSource.type # "string"
    /\ anResult' = SourceError /\ anPc' = "thrown"
    /\ UNCHANGED <<anSource, anOptions, anOthers>>

\* The source is a string: it is tokenized and analyzed, and the result is
\* returned.
AnReturn ==
    /\ anPc = "called" /\ ~anOptions.isNull /\ anSource.type = "string"
    /\ \E toks \in {Tokenize(anSource.value)} :
          anResult' = AnalyzeResult(anSource.value, toks, Options(anOptions))
    /\ anPc' = "done"
    /\ UNCHANGED <<anSource, anOptions, anOthers>>

AnNext == AnCall \/ AnBadOptions \/ AnThrow \/ AnReturn

SpecAn == Init /\ [][AnNext]_vars

(***************************************************************************)
(* Properties of buildGraph and detectCircularDeps.                        *)
(***************************************************************************)
\* The nodes a node has an edge to.
Succ(g, a) == Range(Neighbors(g, a))

\* The nodes that can be reached from the nodes of S, S included.
RECURSIVE ReachFrom(_, _)
ReachFrom(g, S) ==
    LET T == S \cup UNION {Succ(g, a) : a \in S}
    IN IF T = S THEN S ELSE ReachFrom(g, T)

\* The graph has a directed cycle: a node that one or more edges lead back
\* to.
HasDirectedCycle(g) ==
    \E a \in Range(g.nodes) : a \in ReachFrom(g, Succ(g, a))

\* a -> b -> c -> a, and a -> b -> c with c importing nothing.
GraphThreeCycle ==
    BuildGraph(FileDataOf(<<<<FileA, SpecB>>, <<FileB, SpecC>>,
                            <<FileC, SpecA>>>>))
GraphChain == BuildGraph(FileDataOf(<<<<FileA, SpecB>>, <<FileB, SpecC>>>>))

\* C12: when detectCircularDeps has returned, it has found a cycle if and
\* only if the graph has a directed cycle; for a -> b -> c -> a it has found
\* a cycle that contains a, b and c, and for a -> b -> c it has found none.
C12_CycleFoundIffGraphCyclic ==
    cdPc = "done" =>
        /\ (cycles # <<>>) <=> HasDirectedCycle(cdGraph)
        /\ cdGraph = GraphThreeCycle =>
              \E n \in 1..Len(cycles) :
                  {FileA, FileB, FileC} \subseteq Range(cycles[n])
        /\ cdGraph = GraphChain => cycles = <<>>

\* The search of a -> b -> c -> a has returned with a cycle.
C12_Witness ==
    cdPc = "done" /\ cdGraph = GraphThreeCycle /\ cycles # <<>>

\* The nodes of the graph and the targets of its edges.
AllNodes(g) == Range(g.nodes) \cup UNION {Succ(g, a) : a \in Range(g.nodes)}

\* The neighbors of the nodes of S and one return for each.
RECURSIVE ExploredCost(_, _)
ExploredCost(g, S) ==
    IF S = {} THEN 0
    ELSE LET a == CHOOSE x \in S : TRUE
         IN Len(Neighbors(g, a)) + 1 + ExploredCost(g, S \ {a})

RECURSIVE SumNext(_)
SumNext(fs) == IF fs = <<>> THEN 0 ELSE fs[1].next + SumNext(Tail(fs))

\* What the search has done so far: the keys passed, the nodes entered, the
\* neighbors taken by the active calls, and the neighbors and the return of
\* the calls that have ended.
CdProgress ==
    cdOuter + Cardinality(visited) + SumNext(frames)
    + ExploredCost(cdGraph, visited \ inStack)

\* What a search of the graph can do at most.
CdProgressBound(g) ==
    Len(g.nodes) + Cardinality(AllNodes(g)) + ExploredCost(g, AllNodes(g))

\* C13: every step of the search adds to the progress made, which is
\* bounded by the size of the graph, so the search ends; a call of dfs gets
\* to its loop over the neighbors only for a node that was not visited, and
\* marks it visited for good, so the edges of a node are expanded at most
\* once.
C13_SearchTerminates ==
    [][(cdPc = "search")' =>
          /\ visited \subseteq visited'
          /\ CdProgress' <= CdProgressBound(cdGraph')
          /\ cdPc = "search" => CdProgress' > CdProgress
          /\ Len(frames') > Len(frames) =>
                LET entered == frames'[Len(frames')].node
                IN entered \notin visited /\ entered \in visited']_vars

\* A search has returned that met a self-loop, a node reached over two
\* paths, a node without edges and a second component.
C13_Witness ==
    /\ cdPc = "done"
    /\ \E a \in Range(cdGraph.nodes) : a \in Succ(cdGraph, a)
    /\ \E a, b \in Range(cdGraph.nodes) :
          a # b /\ \E t \in Succ(cdGraph, a) \cap Succ(cdGraph, b) : t \notin {a, b}
    /\ \E a \in Range(cdGraph.nodes) : Succ(cdGraph, a) = {}
    /\ \E a \in Range(cdGraph.nodes) :
          ReachFrom(cdGraph, {cdGraph.nodes[1]}) \cap ReachFrom(cdGraph, {a}) = {}

\* The chain is closed, each of its steps is an edge, and its nodes but the
\* last are distinct.
ClosedChain(g, c) ==
    /\ Len(c) >= 2 /\ c[1] = c[Len(c)]
    /\ \A n \in 1..(Len(c) - 1) : c[n + 1] \in Succ(g, c[n])
    /\ \A m, n \in 1..(Len(c) - 1) : m # n => c[m] # c[n]

\* The part of the stack from the first occurrence of `node` to its top.
StackFrom(p, node) ==
    LET first == CHOOSE n \in 1..Len(p) :
                     p[n] = node /\ \A m \in 1..(n - 1) : p[m] # node
    IN [n \in 1..(Len(p) - first + 1) |-> p[first + n - 1]]

GraphSelfImport == BuildGraph(FileDataOf(<<<<FileA, SpecA>>>>))

\* C14: every cycle reported is a closed chain; the step that reports one
\* reports the stack from the first occurrence of the repeated node to the
\* top, followed by that node; the search of a file that imports itself
\* returns the one cycle [f, f].
C14_CycleIsClosedStackChain ==
    [][/\ \A n \in 1..Len(cycles') : ClosedChain(cdGraph', cycles'[n])
       /\ Len(cycles') > Len(cycles) =>
             LET c == cycles'[Len(cycles')]
                 node == c[Len(c)]
             IN /\ Len(cycles') = Len(cycles) + 1
                /\ node \in Range(path)
                /\ c = Append(StackFrom(path, node), node)
                /\ path' = path
                /\ \A m, n \in 1..Len(path) : m # n => path[m] # path[n]
       /\ ((cdPc = "done")' /\ cdGraph' = GraphSelfImport) =>
             cycles' = <<<<FileA, FileA>>>>]_vars

\* A search has returned a cycle of three nodes and a one-node cycle.
C14_Witness ==
    /\ cdPc = "done"
    /\ \E n \in 1..Len(cycles) : Len(cycles[n]) = 2
    /\ \E n \in 1..Len(cycles) : Len(cycles[n]) >= 3

\* The files supplied to buildGraph.
Supplied(fd) == {fd[n].file : n \in 1..Len(fd)}

\* C15: the Map buildGraph builds has a Set for each of its keys and no
\* other; every member of a Set is a key; a key that was not supplied as a
\* file (a package, or a file that is only imported) has an empty Set; and
\* when buildGraph has returned, every file supplied is a key.
C15_EveryTargetIsANode ==
    /\ DOMAIN graph.edges = Range(graph.nodes)
    /\ \A a \in Range(graph.nodes) :
          /\ Succ(graph, a) \subseteq Range(graph.nodes)
          /\ a \notin Supplied(fileData) => graph.edges[a] = <<>>
    /\ bgPc = "done" => Supplied(fileData) \subseteq Range(graph.nodes)

\* buildGraph has returned a graph in which a package and a file that was
\* not supplied are targets.
C15_Witness ==
    /\ bgPc = "done"
    /\ \E a \in Range(graph.nodes) : SpecFs \in Succ(graph, a)
    /\ \E a \in Range(graph.nodes) : FileD \in Succ(graph, a)
    /\ FileD \notin Supplied(fileData)
    /\ graph.edges[SpecFs] = <<>> /\ graph.edges[FileD] = <<>>

(***************************************************************************)
(* Properties of parseImports.                                             *)
(***************************************************************************)
\* The text of a quoted specifier without its two quotes.
Unquoted(v) == SubSeq(v, 2, Len(v) - 1)

\* The `from` clauses of the statement that the `import` or `export` at k
\* introduces: a `from` after k with no `;` and no other `import` or
\* `export` in between.
OwnFroms(sig, k) ==
    {j \in Indices(sig) :
        /\ j > k /\ IsKeyword(TokAt(sig, j), KwFrom)
        /\ \A m \in (k + 1)..(j - 1) :
              LET t == TokAt(sig, m)
              IN ~(IsPunct(t, ";") \/ IsKeyword(t, KwImport)
                   \/ IsKeyword(t, KwExport) \/ IsKeyword(t, KwFrom))}

\* The token at k is the string '<s>' of a call `name('<s>')`.
SoleArgument(sig, k, types) ==
    /\ k + 1 < Len(sig) /\ k > 0
    /\ IsPunct(TokAt(sig, k - 1), "(") /\ TokAt(sig, k).type \in types
    /\ IsPunct(TokAt(sig, k + 1), ")")

\* The record of the module reference that the token at k introduces, as a
\* sequence of one record, or of none when it introduces no reference.
ReferenceAt(sig, k) ==
    LET tok == TokAt(sig, k)
        static == /\ tok.type = "keyword" /\ tok.value \in {KwImport, KwExport}
                  /\ ~(/\ IsKeyword(tok, KwImport) /\ k + 1 < Len(sig)
                       /\ IsPunct(TokAt(sig, k + 1), "("))
        froms == OwnFroms(sig, k)
    IN IF /\ IsKeyword(tok, KwImport)
          /\ SoleArgument(sig, k + 2, {"string", "template"})
       THEN <<ImportRecord(Unquoted(TokAt(sig, k + 2).value),
                           "dynamic-import", tok.line)>>
       ELSE IF /\ tok.type = "identifier" /\ tok.value = IdRequire
               /\ SoleArgument(sig, k + 2, {"string"})
       THEN <<ImportRecord(Unquoted(TokAt(sig, k + 2).value), "require",
                           tok.line)>>
       ELSE IF /\ static /\ froms # {}
               /\ Least(froms) + 1 < Len(sig)
               /\ TokAt(sig, Least(froms) + 1).type = "string"
       THEN <<ImportRecord(Unquoted(TokAt(sig, Least(froms) + 1).value),
                           IF IsKeyword(tok, KwImport) THEN "import"
                           ELSE "export-from",
                           tok.line)>>
       ELSE <<>>

RECURSIVE ReferencesFrom(_, _)
ReferencesFrom(sig, k) ==
    IF k >= Len(sig) THEN <<>>
    ELSE ReferenceAt(sig, k) \o ReferencesFrom(sig, k + 1)

\* C16: when parseImports has returned, its records are those of the module
\* references of the four shapes, one each, in the order of their
\* introducing keywords, with the unquoted specifier, the kind and the line
\* of the keyword; an `export` or `import` without a `from` clause of its
\* own has no record.
C16_OneRecordPerReference ==
    imPc = "done" => imports = ReferencesFrom(ImSig, 0)

(***************************************************************************)
(* The analyzers are total.                                                *)
(***************************************************************************)
\* C19: on every token array each analyzer ends and returns its result.
\* Each iteration of each loop moves its index forward, never past the end
\* of the array it runs over, and adds at most one record; at the end of the
\* array the function returns what it has collected: one result per function
\* found, the issues, the import records.  Until the last of them has
\* returned there is always a step to take.
C19_AnalyzersTotal ==
    /\ []((cxPc # "idle" /\ imPc # "done") => ENABLED AzNext)
    /\ [][/\ (cxPc = "discover" /\ cxI < Len(cxTokens)) =>
                /\ cxI' = cxI + 1 /\ cxPc' = "discover" /\ results' = <<>>
                /\ Len(fnDefs') \in {Len(fnDefs), Len(fnDefs) + 1}
          /\ (cxPc = "discover" /\ cxI >= Len(cxTokens)) =>
                /\ cxPc' = IF fnDefs = <<>> THEN "done" ELSE "score"
                /\ results' = <<>>
          /\ (cxPc = "score" /\ fnK < Len(fnDefs)) =>
                /\ fnK' = fnK + 1 /\ cxPc' = "score"
                /\ Len(results') = Len(results) + 1
                /\ results'[Len(results')].complexity >= 1
          /\ (cxPc = "score" /\ fnK >= Len(fnDefs)) =>
                /\ cxPc' = "done" /\ results' = results
                /\ Len(results) = Len(fnDefs)
          /\ (cxPc = "done" /\ dcPc = "scan" /\ dcI < Len(DcSig)) =>
                /\ dcI' > dcI /\ dcI' <= Len(DcSig) /\ dcPc' = "scan"
                /\ Len(issues') \in {Len(issues), Len(issues) + 1}
          /\ (cxPc = "done" /\ dcPc = "scan" /\ dcI >= Len(DcSig)) =>
                dcPc' = "done" /\ issues' = issues
          /\ (dcPc = "done" /\ imPc = "loop" /\ imI < Len(ImSig)) =>
                /\ imI' = imI + 1 /\ imPc' = "loop"
                /\ Len(imports') \in {Len(imports), Len(imports) + 1}
          /\ (dcPc = "done" /\ imPc = "loop" /\ imI >= Len(ImSig)) =>
                imPc' = "done" /\ imports' = imports]_vars

\* The last token of the array is one that opens a construct.
EndsOpen(ts) ==
    /\ ts # <<>>
    /\ LET t == ts[Len(ts)]
       IN \/ IsJump(t) \/ IsKeyword(t, KwFunction) \/ IsKeyword(t, KwImport)
          \/ IsKeyword(t, KwExport) \/ IsOperator(t, <<"=", ">">>)

\* The three analyzers have returned on an array with unbalanced braces and
\* parentheses that ends in a token that opens a construct, and in which a
\* function with a body was found.
C19_Witness ==
    /\ cxPc = "done" /\ dcPc = "done" /\ imPc = "done"
    /\ Balance(cxTokens, 0, Len(cxTokens) - 1, "{", "}") # 0
    /\ Balance(cxTokens, 0, Len(cxTokens) - 1, "(", ")") # 0
    /\ EndsOpen(cxTokens)
    /\ results # <<>>


(***************************************************************************)
(* The argument check of analyze.                                          *)
(***************************************************************************)
\* C20: analyze called with a source that is not a string does one thing:
\* it throws a TypeError, the one of its own check when the options could be
\* destructured. It never returns a result for such a source, and nothing
\* is tokenized or analyzed on the way: the arguments and the state of the
\* tokenizer and of the analyzers are as they were.
C20_NonStringSourceThrows ==
    /\ [](anSource.type # "string" =>
             anPc # "done" /\ anResult.outcome # "return")
    /\ [][(anPc = "called" /\ anSource.type # "string") =>
             /\ anPc' = "thrown"
             /\ anResult'.outcome = "throw"
             /\ anResult'.error = "TypeError"
             /\ ~anOptions.isNull => anResult' = SourceError
             /\ UNCHANGED <<anSource, anOptions, anOthers>>]_vars

\* analyze(42), no options given, has thrown the TypeError of its argument
\* check.
C20_Witness ==
    /\ anPc = "thrown" /\ anSource = JsNumber42
    /\ anOptions = OptionsObject(NoFields)
    /\ anResult = SourceError

(***************************************************************************)
(* Calls of the analysis one after the other.  Each call runs tokenize and *)
(* then the three analyzers on its tokens, step by step, on the same       *)
(* variables the previous call left behind: what a function declares at    *)
(* its entry is set anew, everything else keeps its value.                 *)
(***************************************************************************)
MaxCalls == 3

\* `/a/g.test(s)`: a regex at the start of the input; the source ends in a
\* token after which a slash would be a division.
SrcRegexFirst ==
    <<"/", "a", "/", "g", ".", "t", "e", "s", "t", "(", "s", ")">>

RpSources ==
    {SrcRegexFirst, SrcRegexVsDivision, SrcLineComment, SrcDeadAfterReturn,
     SrcArrowFunction, SrcEsmImports}

\* What a call of the analysis returns for a source.
RpResult(toks, complexity, deadCode, style, found) ==
    [tokens |-> toks, complexity |-> complexity, deadCode |-> deadCode,
     style |-> style, imports |-> found]

\* The result as a function of the source alone.
RpResultOf(src) ==
    LET toks == Tokenize(src)
    IN RpResult(toks, AnalyzeComplexity(toks),
                DetectDeadCode(toks, SplitLines(src)),
                checkStyle(src, toks, NoRules),
                ParseImports(toks, FileSource).imports)

\* A call: tokenize(source) is entered and declares its locals.
RpCall ==
    /\ \/ NoCall
       \/ rpPc = "returned" /\ Len(rpLog) < MaxCalls
    /\ source' \in RpSources
    /\ i' = ScanStart.i /\ line' = ScanStart.line /\ col' = ScanStart.col
    /\ tokens' = ScanStart.tokens
    /\ lastSignificant' = ScanStart.lastSignificant
    /\ pc' = "scan" /\ rpPc' = "tokenize"
    /\ UNCHANGED <<cxVars, dcVars, imVars, bgVars, cdVars, anVars, rpLog,
                   rpOthers>>

\* The scan of the source, one iteration of tokenize's loop at a time.
RpTokenize ==
    \/ TokWhitespace \/ TokNewline \/ TokLineComment \/ TokBlockComment
    \/ TokTemplate \/ TokString \/ TokNumber \/ TokWord \/ TokRegex
    \/ TokOperator \/ TokPunctuation \/ TokUnknown \/ TokReturn

\* tokenize has returned: the analyzers are entered with its tokens, the
\* lines of the source and the file name '<source>', and declare their
\* locals.
RpAnalyzers ==
    /\ rpPc = "tokenize" /\ pc = "done"
    /\ cxTokens' = tokens /\ dcTokens' = tokens /\ imTokens' = tokens
    /\ dcLines' = SplitLines(source)
    /\ cxI' = 0 /\ fnDefs' = <<>> /\ fnK' = 0 /\ results' = <<>>
    /\ cxPc' = "discover"
    /\ dcI' = 0 /\ issues' = <<>> /\ dcPc' = "scan"
    /\ imFile' = FileSource /\ imI' = 0 /\ imports' = <<>> /\ imPc' = "loop"
    /\ rpPc' = "analyze"
    /\ UNCHANGED <<tokVars, bgVars, cdVars, anVars, rpLog, rpOthers>>

\* The analyzers' loops, in the order analyze calls them.
RpAnalyze == AzComplexity \/ AzDeadCode \/ AzImports

\* The three analyzers have returned: the call returns what they found,
\* and what checkStyle, which keeps nothing between its steps, finds in the
\* source and its tokens under the default rules.
RpReturn ==
    /\ rpPc = "analyze" /\ cxPc = "done" /\ dcPc = "done" /\ imPc = "done"
    /\ rpLog' = Append(rpLog,
                       [source |-> source,
                        result |-> RpResult(tokens, results, issues,
                                            checkStyle(source, tokens, NoRules),
                                            imports)])
    /\ rpPc' = "returned"
    /\ UNCHANGED <<azVars, rpOthers>>

RpNext == RpCall \/ RpTokenize \/ RpAnalyzers \/ RpAnalyze \/ RpReturn

SpecRp == Init /\ [][RpNext]_vars

\* C21: whatever calls went before, a call returns what its source alone
\* determines: the tokens, complexity records, dead-code issues and imports
\* of every call that has returned are those of its source, so two calls on
\* the same source return the same result.
C21_CallsAreIndependent ==
    rpPc = "returned" =>
        /\ \A n \in 1..Len(rpLog) :
              rpLog[n].result = RpResultOf(rpLog[n].source)
        /\ \A m, n \in 1..Len(rpLog) :
              rpLog[m].source = rpLog[n].source =>
                  rpLog[m].result = rpLog[n].result

\* Three calls have returned: the first and the third on `/a/g.test(s)`,
\* whose first token is a regex, the second on a source that ends in `}`.
C21_Witness ==
    /\ rpPc = "returned" /\ Len(rpLog) = 3
    /\ rpLog[1].source = SrcRegexFirst /\ rpLog[3].source = SrcRegexFirst
    /\ rpLog[2].source = SrcDeadAfterReturn
    /\ rpLog[3].result.tokens[1].type = "regex"
    /\ rpLog[2].result.deadCode # <<>>

(***************************************************************************)
(* Regex literals and divisions.                                           *)
(***************************************************************************)
\* The first index from k on that holds a slash, a backslash, an opening
\* bracket or a line break, or the length of src.
RECURSIVE SimpleBodyEnd(_, _)
SimpleBodyEnd(src, k) ==
    IF k >= Len(src) THEN k
    ELSE IF CharAt(src, k) \in {"/", BS, "[", NL} THEN k
    ELSE SimpleBodyEnd(src, k + 1)

\* At index k of src stands `/body/` with a body of at least one character
\* that holds no slash, backslash, bracket or line break and does not make
\* the slash the start of a comment.
IsSimpleRegexAt(src, k) ==
    /\ k + 1 < Len(src) /\ CharAt(src, k) = "/" /\ CharAt(src, k + 1) # "*"
    /\ LET e == SimpleBodyEnd(src, k + 1)
       IN e > k + 1 /\ e < Len(src) /\ CharAt(src, e) = "/"

\* The text `/body/flags` that stands at index k.
SimpleRegexText(src, k) ==
    LET e == SimpleBodyEnd(src, k + 1)
        n == RunLen(src, e + 1, RegexFlagChars)
    IN Slice(src, k, e + 1 + n - k)

\* From index k on come blanks and then a digit.
RECURSIVE NumberFollows(_, _)
NumberFollows(src, k) ==
    /\ k < Len(src)
    /\ IF CharAt(src, k) = " " THEN NumberFollows(src, k + 1)
       ELSE CharAt(src, k) \in Digits

RegexTokens(ts) == {k \in 1..Len(ts) : ts[k].type = "regex"}
DivisionTokens(ts) ==
    {k \in 1..Len(ts) : ts[k].type = "operator" /\ ts[k].value = <<"/">>}

\* C22: when the scan stands at a `/body/flags` and no significant token or
\* a semicolon came last, the iteration adds one regex token with that whole
\* text and moves behind it; when it stands at a slash that follows a number
\* and is followed by a number, the iteration adds the operator token `/`.
\* The tokens of `const re = /abc/g; const x = 10 / 2;` hold exactly one
\* regex token and exactly one operator token `/`.
C22_RegexOrDivision ==
    /\ [](pc = "done" /\ source = SrcRegexVsDivision =>
             /\ Cardinality(RegexTokens(tokens)) = 1
             /\ Cardinality(DivisionTokens(tokens)) = 1)
    /\ [][/\ (/\ pc = "scan" /\ i < Len(source)
              /\ IsSimpleRegexAt(source, i)
              /\ \/ lastSignificant = NoToken
                 \/ /\ lastSignificant.type = "punctuation"
                    /\ lastSignificant.value = <<";">>) =>
                 /\ tokens' = Append(tokens,
                                     Tok("regex", SimpleRegexText(source, i),
                                         line, col))
                 /\ i' = i + Len(SimpleRegexText(source, i))
          /\ (/\ pc = "scan" /\ i < Len(source)
              /\ CharAt(source, i) = "/"
              /\ lastSignificant.type = "number"
              /\ NumberFollows(source, i + 1)) =>
                 /\ tokens' = Append(tokens, Tok("operator", <<"/">>, line, col))
                 /\ i' = i + 1]_vars

\* tokenize has returned on `const re = /abc/g; const x = 10 / 2;` with the
\* regex token `/abc/g` that follows the operator `=`, and with the
\* operator `/` between the numbers 10 and 2.
C22_Witness ==
    /\ pc = "done" /\ source = SrcRegexVsDivision
    /\ \E k \in RegexTokens(tokens) :
          tokens[k].value = <<"/", "a", "b", "c", "/", "g">>
    /\ \E k \in DivisionTokens(tokens) :
          /\ tokens[k - 1].value = <<"1", "0">>
          /\ tokens[k + 1].value = <<"2">>

(***************************************************************************)
(* Dynamic imports and the dependency graph.                               *)
(***************************************************************************)
\* What the import records of one file that are not dynamic imports
\* resolve to.
StaticTargets(data) ==
    {resolveImport(data.file, data.imports[k].source) :
        k \in {m \in 1..Len(data.imports) :
                  data.imports[m].kind # "dynamic-import"}}

\* C23: a dynamic import contributes no edge: when buildGraph has returned,
\* every member of a file's Set is what an import record of that file that
\* is not a dynamic import resolves to.
C23_DynamicImportNotFollowed ==
    bgPc = "done" =>
        \A n \in 1..Len(fileData) :
            \A target \in Range(graph.edges[fileData[n].file]) :
                \E m \in 1..Len(fileData) :
                    /\ fileData[m].file = fileData[n].file
                    /\ target \in StaticTargets(fileData[m])

(***************************************************************************)
(* createQueue(concurrency) of async-patterns/queue.js.  A task handed to  *)
(* add() is "waiting" in tasks, "scheduled" once tick has dequeued it and  *)
(* queued the microtask that calls fn, "started" once fn has been called,  *)
(* "fulfilled" or "rejected" once its promise has settled and the reaction *)
(* is queued, "resolved" or "failed" once the reaction has run, and        *)
(* "cancelled" once clear() has rejected it.  Every action is one          *)
(* synchronous run of the queue's code: a method call, or a microtask.     *)
(***************************************************************************)
MaxConcurrency == 2
MaxTasks == 3
MaxDrains == 2

\* The loop of tick with a condition that only looks at the waiting tasks.
RECURSIVE TickLoopIgnoresLimit(_, _)
TickLoopIgnoresLimit(q, concurrency) ==
    IF q.tasks # <<>>
    THEN TickLoopIgnoresLimit(
             [tasks |-> Tail(q.tasks), running |-> q.running + 1,
              task |-> [q.task EXCEPT ![Head(q.tasks)] = "scheduled"]],
             concurrency)
    ELSE q

\* `while (running < concurrency && tasks.length > 0)`: a task is shifted,
\* running is incremented and the call of fn is queued.
RECURSIVE TickLoop(_, _)
TickLoop(q, concurrency) ==
    IF q.running < concurrency /\ q.tasks # <<>>
    THEN TickLoop([tasks |-> Tail(q.tasks), running |-> q.running + 1,
                   task |-> [q.task EXCEPT ![Head(q.tasks)] = "scheduled"]],
                  concurrency)
    ELSE q

\* tick()
tick(q, concurrency, paused) == IF paused THEN q ELSE TickLoop(q, concurrency)

\* checkDrain(): with nothing running and nothing waiting every resolver is
\* called and the list is emptied.
checkDrain(running, tasks, resolvers, drains) ==
    IF running = 0 /\ tasks = <<>>
    THEN [resolvers |-> <<>>,
          drains |-> [d \in 1..Len(drains) |->
                         IF \E n \in 1..Len(resolvers) : resolvers[n] = d
                         THEN "resolved" ELSE drains[d]]]
    ELSE [resolvers |-> resolvers, drains |-> drains]

QuState == [tasks |-> quTasks, running |-> quRunning, task |-> quTask]

\* createQueue(concurrency) with a number >= 1.
QuCreate ==
    /\ NoCall
    /\ quConcurrency' \in 1..MaxConcurrency
    /\ quTasks' = <<>> /\ quRunning' = 0 /\ quPaused' = FALSE
    /\ quDrainResolvers' = <<>> /\ quTask' = <<>> /\ quDrains' = <<>>
    /\ quPc' = "live"
    /\ UNCHANGED <<quOthers>>

\* add(fn): the task is pushed and tick() runs.
QuAdd ==
    /\ quPc = "live" /\ Len(quTask) < MaxTasks
    /\ LET t == Len(quTask) + 1
           q == tick([tasks |-> Append(quTasks, t), running |-> quRunning,
                      task |-> Append(quTask, "waiting")],
                     quConcurrency, quPaused)
       IN quTasks' = q.tasks /\ quRunning' = q.running /\ quTask' = q.task
    /\ UNCHANGED <<quConcurrency, quPaused, quDrainResolvers, quDrains, quPc,
                   quOthers>>

\* The microtask `.then(() => fn())`: the task is started.
QuInvoke ==
    /\ quPc = "live"
    /\ \E t \in 1..Len(quTask) :
          /\ quTask[t] = "scheduled"
          /\ quTask' = [quTask EXCEPT ![t] = "started"]
    /\ UNCHANGED <<quConcurrency, quTasks, quRunning, quPaused,
                   quDrainResolvers, quDrains, quPc, quOthers>>

\* The promise of a started task settles.
QuSettle ==
    /\ quPc = "live"
    /\ \E t \in 1..Len(quTask), outcome \in {"fulfilled", "rejected"} :
          /\ quTask[t] = "started"
          /\ quTask' = [quTask EXCEPT ![t] = outcome]
    /\ UNCHANGED <<quConcurrency, quTasks, quRunning, quPaused,
                   quDrainResolvers, quDrains, quPc, quOthers>>

\* The reaction to a settled task: running--, resolve or reject, tick(),
\* checkDrain().
QuHandle ==
    /\ quPc = "live"
    /\ \E t \in 1..Len(quTask) :
          /\ quTask[t] \in {"fulfilled", "rejected"}
          /\ LET settled == [quTask EXCEPT ![t] = IF quTask[t] = "fulfilled"
                                                  THEN "resolved" ELSE "failed"]
                 q == tick([tasks |-> quTasks, running |-> quRunning - 1,
                            task |-> settled],
                           quConcurrency, quPaused)
                 d == checkDrain(q.running, q.tasks, quDrainResolvers, quDrains)
             IN /\ quTasks' = q.tasks /\ quRunning' = q.running
                /\ quTask' = q.task
                /\ quDrainResolvers' = d.resolvers /\ quDrains' = d.drains
    /\ UNCHANGED <<quConcurrency, quPaused, quPc, quOthers>>

\* drain(): resolved at once when nothing runs and nothing waits, else a
\* promise whose resolver is pushed.
QuDrain ==
    /\ quPc = "live" /\ Len(quDrains) < MaxDrains
    /\ IF quRunning = 0 /\ quTasks = <<>>
       THEN /\ quDrains' = Append(quDrains, "resolved")
            /\ UNCHANGED quDrainResolvers
       ELSE /\ quDrains' = Append(quDrains, "pending")
            /\ quDrainResolvers' = Append(quDrainResolvers, Len(quDrains) + 1)
    /\ UNCHANGED <<quConcurrency, quTasks, quRunning, quPaused, quTask, quPc,
                   quOthers>>

\* pause()
QuPause ==
    /\ quPc = "live"
    /\ quPaused' = TRUE
    /\ UNCHANGED <<quConcurrency, quTasks, quRunning, quDrainResolvers,
                   quTask, quDrains, quPc, quOthers>>

\* resume(): nothing when not paused, else paused = false and tick().
QuResume ==
    /\ quPc = "live"
    /\ IF ~quPaused
       THEN UNCHANGED <<quPaused, quTasks, quRunning, quTask>>
       ELSE LET q == tick(QuState, quConcurrency, FALSE)
            IN /\ quPaused' = FALSE
               /\ quTasks' = q.tasks /\ quRunning' = q.running
               /\ quTask' = q.task
    /\ UNCHANGED <<quConcurrency, quDrainResolvers, quDrains, quPc, quOthers>>

\* clear(): the waiting tasks are removed and rejected.
QuClear ==
    /\ quPc = "live"
    /\ quTasks' = <<>>
    /\ quTask' = [t \in 1..Len(quTask) |->
                     IF quTask[t] = "waiting" THEN "cancelled" ELSE quTask[t]]
    /\ UNCHANGED <<quConcurrency, quRunning, quPaused, quDrainResolvers,
                   quDrains, quPc, quOthers>>

QuNext ==
    \/ QuCreate \/ QuAdd \/ QuInvoke \/ QuSettle \/ QuHandle \/ QuDrain
    \/ QuPause \/ QuResume \/ QuClear

SpecQu == Init /\ [][QuNext]_vars

(***************************************************************************)
(* Properties of the queue.                                                *)
(***************************************************************************)
\* The tasks that have been started and whose promise has not settled.
QuStarted == {t \in 1..Len(quTask) : quTask[t] = "started"}

\* The tasks the queue counts as running: dequeued, and their reaction has
\* not run yet.
QuInFlight ==
    {t \in 1..Len(quTask) :
        quTask[t] \in {"scheduled", "started", "fulfilled", "rejected"}}

\* C24: whenever the queue has no waiting and no running task, every
\* promise drain() has returned is resolved.
C24_DrainResolvedWhenEmpty ==
    (quPc = "live" /\ quRunning = 0 /\ quTasks = <<>>) =>
        \A d \in 1..Len(quDrains) : quDrains[d] = "resolved"

\* C25: the tasks that have been started and have not settled are never
\* more than the concurrency limit; so are the tasks the queue has dequeued
\* and not yet reacted to, which running counts.
C25_StartedWithinConcurrency ==
    quPc = "live" =>
        /\ Cardinality(QuStarted) <= quConcurrency
        /\ Cardinality(QuInFlight) = quRunning
        /\ quRunning <= quConcurrency

\* A task has failed, as many tasks as the limit allows are started, and
\* another task waits.
C25_Witness ==
    /\ quPc = "live" /\ Cardinality(QuStarted) = quConcurrency
    /\ quTasks # <<>> /\ ~quPaused
    /\ \E t \in 1..Len(quTask) : quTask[t] = "failed"

(***************************************************************************)
(* debounce(fn, ms, opts) of async-patterns/debounce.js.  Window objects   *)
(* are numbered in the order createWindow makes them; 0 stands for null.   *)
(* The timer says whether a timeout is set and which window `win` its      *)
(* callback closes over.  A call passes its own number as the argument,    *)
(* and fn's outcome names the invocation that produced it.  Every action   *)
(* is one synchronous run of the code: a method call, the timer's          *)
(* callback, or the resumption of invoke after fn's promise has settled.   *)
(* fn is any function: called, it returns (a promise or a value, which     *)
(* invoke awaits) or throws before invoke reaches its await.               *)
(***************************************************************************)
MaxDebounceCalls == 3
MaxInvocations == 3

\* createWindow(args)
createWindow(args) == [args |-> args, state |-> "pending", outcome |-> 0]

\* `timer = null`, and the timeout set by a call whose `win` is window w.
NoTimer == [set |-> FALSE, win |-> 0]

TimerFor(w) == [set |-> TRUE, win |-> w]

\* What a call of fn does before invoke's await.
FnDoes == {"returns", "throws"}

\* win.reject(err) for invocation k: a settled promise stays as it is.
RejectWindow(wins, w, k) ==
    IF wins[w].state = "pending"
    THEN [wins EXCEPT ![w].state = "rejected", ![w].outcome = k]
    ELSE wins

\* invoke(win) up to its first suspension: fn is called with the window's
\* arguments.  When fn returns, invoke stops at its await.  When fn throws,
\* the catch rejects the window and the finally clears `window` in the
\* same run.  The record notes who called invoke: the timer, flush, or a
\* call.
Invoke(invs, wins, window, w, by, does) ==
    LET k == Len(invs) + 1
        inv == [win |-> w, args |-> wins[w].args, by |-> by,
                state |-> IF does = "returns" THEN "running" ELSE "settled"]
    IN [invs |-> Append(invs, inv),
        wins |-> IF does = "returns" THEN wins ELSE RejectWindow(wins, w, k),
        window |-> IF does = "throws" /\ window = w THEN 0 ELSE window]

\* The invocations of fn for window w made so far.
InvocationsOf(invs, w) == {k \in 1..Len(invs) : invs[k].win = w}

\* debounce(fn, ms, opts) with a function and ms >= 0.
DbCreate ==
    /\ NoCall
    /\ dbLeading' \in BOOLEAN
    /\ dbTimer' = NoTimer /\ dbWindow' = 0 /\ dbWins' = <<>>
    /\ dbCalls' = <<>>
    /\ dbInvs' = <<>> /\ dbPc' = "live"
    /\ UNCHANGED <<dbOthers>>

\* The window after `if (!window) window = createWindow(args); else
\* window.args = args`.
WindowsAfterCall(wins, w, args) ==
    IF w = 0 THEN Append(wins, createWindow(args))
    ELSE [wins EXCEPT ![w].args = args]

\* debouncedFn(...args), trailing edge: the window is created or its
\* arguments replaced, the timer is set anew, the window's promise returned.
DbCallTrailing ==
    /\ dbPc = "live" /\ ~dbLeading /\ Len(dbCalls) < MaxDebounceCalls
    /\ LET args == Len(dbCalls) + 1
           win == IF dbWindow = 0 THEN Len(dbWins) + 1 ELSE dbWindow
       IN /\ dbWins' = WindowsAfterCall(dbWins, dbWindow, args)
          /\ dbWindow' = win /\ dbTimer' = TimerFor(win)
          /\ dbCalls' = Append(dbCalls,
                               [args |-> args, win |-> win,
                                invoked |-> InvocationsOf(dbInvs, win)])
    /\ UNCHANGED <<dbLeading, dbInvs, dbPc, dbOthers>>

\* debouncedFn(...args), leading edge: a new window is invoked at once, an
\* open one gets the arguments.  The timer is set anew and `win.promise`
\* returned.  When fn threw inside invoke, `window` is null again by then:
\* the timer is set all the same, `win` is null and `win.promise` throws a
\* TypeError, so that the caller gets no promise.
DbCallLeading ==
    /\ dbPc = "live" /\ dbLeading /\ Len(dbCalls) < MaxDebounceCalls
    /\ \E does \in IF dbWindow = 0 THEN FnDoes ELSE {"returns"} :
          /\ does = "throws" => Len(dbInvs) < MaxInvocations
          /\ LET args == Len(dbCalls) + 1
                 created == WindowsAfterCall(dbWins, dbWindow, args)
                 w == IF dbWindow = 0 THEN Len(dbWins) + 1 ELSE dbWindow
                 after == IF dbWindow = 0
                          THEN Invoke(dbInvs, created, w, w, "call", does)
                          ELSE [invs |-> dbInvs, wins |-> created,
                                window |-> w]
                 win == after.window
             IN /\ dbWins' = after.wins /\ dbInvs' = after.invs
                /\ dbWindow' = win /\ dbTimer' = TimerFor(win)
                /\ dbCalls' = IF win = 0 THEN dbCalls
                              ELSE Append(dbCalls,
                                     [args |-> args, win |-> win,
                                      invoked |-> InvocationsOf(dbInvs, win)])
    /\ UNCHANGED <<dbLeading, dbPc, dbOthers>>

\* The timer's callback, trailing edge: `timer = null; invoke(win)`.
DbTimerTrailing ==
    /\ dbPc = "live" /\ ~dbLeading /\ dbTimer.set
    /\ \E does \in FnDoes :
          LET after == Invoke(dbInvs, dbWins, dbWindow, dbTimer.win, "timer",
                              does)
          IN /\ dbInvs' = after.invs /\ dbWins' = after.wins
             /\ dbWindow' = after.window
    /\ dbTimer' = NoTimer
    /\ UNCHANGED <<dbLeading, dbCalls, dbPc, dbOthers>>

\* The timer's callback, leading edge: `timer = null; window = null`.
DbTimerLeading ==
    /\ dbPc = "live" /\ dbLeading /\ dbTimer.set
    /\ dbTimer' = NoTimer /\ dbWindow' = 0
    /\ UNCHANGED <<dbLeading, dbWins, dbCalls, dbInvs, dbPc, dbOthers>>

\* invoke(win) after its await: fn's promise has settled; the window's
\* promise is resolved or rejected (which has no effect on a settled one)
\* and the window is cleared when it is still the active one.
DbSettle ==
    /\ dbPc = "live"
    /\ \E k \in 1..Len(dbInvs), state \in {"resolved", "rejected"} :
          /\ dbInvs[k].state = "running"
          /\ dbInvs' = [dbInvs EXCEPT ![k].state = "settled"]
          /\ dbWins' = IF dbWins[dbInvs[k].win].state = "pending"
                       THEN [dbWins EXCEPT ![dbInvs[k].win].state = state,
                                           ![dbInvs[k].win].outcome = k]
                       ELSE dbWins
          /\ dbWindow' = IF dbWindow = dbInvs[k].win THEN 0 ELSE dbWindow
    /\ UNCHANGED <<dbLeading, dbTimer, dbCalls, dbPc, dbOthers>>

\* cancel(): the timer is cleared and the window rejected and dropped.
DbCancel ==
    /\ dbPc = "live"
    /\ dbTimer' = NoTimer /\ dbWindow' = 0
    /\ dbWins' = IF dbWindow # 0 /\ dbWins[dbWindow].state = "pending"
                 THEN [dbWins EXCEPT ![dbWindow].state = "cancelled"]
                 ELSE dbWins
    /\ UNCHANGED <<dbLeading, dbCalls, dbInvs, dbPc, dbOthers>>

\* flush(): with a window, the timer is cleared and the window invoked.
DbFlush ==
    /\ dbPc = "live" /\ Len(dbInvs) < MaxInvocations
    /\ IF dbWindow = 0 THEN UNCHANGED <<dbTimer, dbWindow, dbWins, dbInvs>>
       ELSE /\ dbTimer' = NoTimer
            /\ \E does \in FnDoes :
                  LET after == Invoke(dbInvs, dbWins, dbWindow, dbWindow,
                                      "flush", does)
                  IN /\ dbInvs' = after.invs /\ dbWins' = after.wins
                     /\ dbWindow' = after.window
    /\ UNCHANGED <<dbLeading, dbCalls, dbPc, dbOthers>>

DbNext ==
    \/ DbCreate \/ DbCallTrailing \/ DbCallLeading \/ DbTimerTrailing
    \/ DbTimerLeading \/ DbSettle \/ DbCancel \/ DbFlush

SpecDb == Init /\ [][DbNext]_vars

(***************************************************************************)
(* Properties of the debounced function.                                   *)
(***************************************************************************)
\* The calls that went into window w.
CallsOf(w) == {c \in 1..Len(dbCalls) : dbCalls[c].win = w}

\* C26: in trailing mode, as long as fn is invoked by the timer alone, fn
\* is invoked at most once for a window, with the arguments of the last
\* call that went into the window; the callers of a window share its
\* promise, which is settled by that invocation; and a call made after the
\* invocation of a window does not go into that window.
C26_OneInvocationPerWindow ==
    (/\ dbPc = "live" /\ ~dbLeading
     /\ \A k \in 1..Len(dbInvs) : dbInvs[k].by = "timer") =>
        /\ \A w \in 1..Len(dbWins) :
              Cardinality(InvocationsOf(dbInvs, w)) <= 1
        /\ \A k \in 1..Len(dbInvs) :
              \A c \in CallsOf(dbInvs[k].win) :
                  dbCalls[c].args <= dbInvs[k].args
        /\ \A w \in 1..Len(dbWins) :
              dbWins[w].state \in {"resolved", "rejected"} =>
                  dbWins[w].outcome \in InvocationsOf(dbInvs, w)
        /\ \A c \in 1..Len(dbCalls) : dbCalls[c].invoked = {}

(***************************************************************************)
(* pool(tasks, concurrency, opts) of async-patterns/pool.js.  Indices are  *)
(* those of the code (from 0); task idx is the (idx + 1)-th element of the *)
(* sequences.  A task is "new", "started" once fn() has been called and    *)
(* has returned a promise, "thrown" once fn() has thrown, "fulfilled" or   *)
(* "rejected" once its promise has settled, and "taken" once its worker    *)
(* has resumed and gone on.  A worker is at "run" (not yet called), at     *)
(* "await" of task idx, "done" (its promise is resolved) or "crashed" (its *)
(* promise is rejected with an error thrown outside the try block of task  *)
(* idx).  The value task idx produces is ValueOf(idx).  Every action is    *)
(* one synchronous run of the code.                                        *)
(***************************************************************************)
MaxPoolTasks == 3
MaxPoolCap == 3

\* The default of concurrency: a number above every number of tasks.
Infinity == MaxPoolTasks + MaxPoolCap + 1

ValueOf(idx) == <<"value", idx>>
EmptySlot == <<"empty">>

\* What an element of tasks is: not a function ("other"); a function whose
\* promise is fulfilled or rejected with an Error ("function"); a function
\* that throws an Error when called ("throws"); a function whose promise is
\* rejected with a value that takes no new property: null, undefined, a
\* string, a frozen Error.
Untaggable ==
    {"rejectsNull", "rejectsUndefined", "rejectsString", "rejectsFrozen"}

TaskKinds == {"function", "other", "throws"} \cup Untaggable

\* The tasks arrays of length total: functions and non-functions in every
\* combination, and one function of another kind among plain functions.
TaskArrays(total) ==
    [1..total -> {"function", "other"}]
    \cup {[t \in 1..total |-> IF t = s THEN kind ELSE "function"] :
            s \in 1..total, kind \in TaskKinds}

\* opts.onProgress: absent, a function that returns, a function that throws.
ProgressKinds == {"none", "returns", "throws"}

\* The TypeError of `err._poolIndex = idx` in strict code.
TagError(kind) ==
    [name |-> "TypeError",
     message |->
        CASE kind = "rejectsNull" ->
                "Cannot set properties of null (setting '_poolIndex')"
          [] kind = "rejectsUndefined" ->
                "Cannot set properties of undefined (setting '_poolIndex')"
          [] kind = "rejectsString" ->
                "Cannot create property '_poolIndex' on string 'a string'"
          [] kind = "rejectsFrozen" ->
                "Cannot add property _poolIndex, object is not extensible"]

\* What onProgress throws.
ProgressError == [name |-> "Error", message |-> "onProgress"]

\* `const cap = concurrency < 1 ? 1 : Math.floor(concurrency)`
Cap(concurrency) == IF concurrency < 1 THEN 1 ELSE concurrency

\* As many workers as there are tasks.
WorkerCountTotal(cap, total) == total

\* `Math.min(cap, total)`
WorkerCount(cap, total) == Min(cap, total)

\* `taskIndex++`
NextIndex(taskIndex) == taskIndex + 1

\* `results[idx] = await fn()`
StoreResult(res, idx, completed) == [res EXCEPT ![idx + 1] = ValueOf(idx)]

\* The locals of pool that the workers share, and the workers whose
\* promises are rejected, in the order of their rejection.
PlState ==
    [taskIndex |-> plTaskIndex, completed |-> plCompleted,
     errors |-> plErrors, workers |-> plWorkers, task |-> plTask,
     invoked |-> plInvoked, crashes |-> plCrashes]

\* An error leaves worker w: the promise worker() returned is rejected.
Crash(p, w, idx, error) ==
    [p EXCEPT !.workers[w] = [pc |-> "crashed", idx |-> idx, error |-> error],
              !.crashes = Append(@, w)]

\* worker w runs its loop from the loop's condition until it awaits fn(),
\* leaves the loop, or is left by an error; WorkerProgress is the loop's
\* body from `completed++` on.
RECURSIVE WorkerLoop(_, _, _, _, _)
RECURSIVE WorkerProgress(_, _, _, _, _, _)
WorkerProgress(p, w, idx, kinds, aborted, onProgress) ==
    LET q == [p EXCEPT !.completed = @ + 1]
    IN IF onProgress = "throws" THEN Crash(q, w, idx, ProgressError)
       ELSE WorkerLoop(q, w, kinds, aborted, onProgress)

WorkerLoop(p, w, kinds, aborted, onProgress) ==
    IF p.taskIndex >= Len(kinds) \/ aborted
    THEN [p EXCEPT !.workers[w] = [pc |-> "done", idx |-> 0]]
    ELSE LET idx == p.taskIndex
             q == [p EXCEPT !.taskIndex = NextIndex(idx)]
         IN IF kinds[idx + 1] = "other"
            THEN WorkerProgress(
                     [q EXCEPT !.errors = Append(@, <<"TypeError", idx>>)],
                     w, idx, kinds, aborted, onProgress)
            ELSE IF kinds[idx + 1] = "throws"
            THEN WorkerProgress(
                     [q EXCEPT !.task[idx + 1] = "thrown",
                               !.invoked[idx + 1] = @ + 1,
                               !.errors = Append(@, <<"Error", idx>>)],
                     w, idx, kinds, aborted, onProgress)
            ELSE [q EXCEPT !.task[idx + 1] = "started",
                           !.invoked[idx + 1] = @ + 1,
                           !.workers[w] = [pc |-> "await", idx |-> idx]]

\* `Array.from({ length: workerCount }, worker)`: the workers are called one
\* after the other, from the w-th on.
RECURSIVE StartWorkers(_, _, _, _, _)
StartWorkers(p, w, kinds, aborted, onProgress) ==
    IF w > Len(p.workers) THEN p
    ELSE StartWorkers(WorkerLoop(p, w, kinds, aborted, onProgress), w + 1,
                      kinds, aborted, onProgress)

PoolConcurrencies == 0..MaxPoolCap \cup {Infinity}

\* pool(tasks, concurrency, opts) with a non-empty array: the locals are
\* declared and the workers are started.
PlCall ==
    /\ NoCall
    /\ \E total \in 1..MaxPoolTasks : plKinds' \in TaskArrays(total)
    /\ plConcurrency' \in PoolConcurrencies
    /\ plSignal' \in {"none", "live", "aborted"}
    /\ plOnProgress' \in ProgressKinds
    /\ LET total == Len(plKinds')
           p == StartWorkers(
                    [taskIndex |-> 0, completed |-> 0, errors |-> <<>>,
                     workers |-> [w \in 1..WorkerCount(Cap(plConcurrency'),
                                                       total) |->
                                     [pc |-> "run", idx |-> 0]],
                     task |-> [t \in 1..total |-> "new"],
                     invoked |-> [t \in 1..total |-> 0],
                     crashes |-> <<>>],
                    1, plKinds', plSignal' = "aborted", plOnProgress')
       IN /\ plTaskIndex' = p.taskIndex /\ plCompleted' = p.completed
          /\ plErrors' = p.errors /\ plWorkers' = p.workers
          /\ plTask' = p.task /\ plInvoked' = p.invoked
          /\ plCrashes' = p.crashes
          /\ plResults' = [t \in 1..total |-> EmptySlot]
    /\ plOutcome' = NoResult /\ plPc' = "running"
    /\ UNCHANGED <<plOthers>>

\* pool([]) returns [].
PlCallEmpty ==
    /\ NoCall
    /\ plKinds' = <<>> /\ plConcurrency' \in PoolConcurrencies
    /\ plSignal' \in {"none", "live", "aborted"}
    /\ plOnProgress' \in ProgressKinds
    /\ plOutcome' = [outcome |-> "return", value |-> <<>>]
    /\ plPc' = "settled"
    /\ UNCHANGED <<plTaskIndex, plCompleted, plResults, plErrors, plWorkers,
                   plTask, plInvoked, plCrashes, plOthers>>

\* pool has been called with tasks; its promise is pending ("running") or
\* settled, which does not stop the workers.
PlCalled == plPc \in {"running", "settled"} /\ plKinds # <<>>

\* The promise a started task returned settles.
PlSettle ==
    /\ PlCalled
    /\ \E t \in 1..Len(plTask) :
          /\ plTask[t] = "started"
          /\ \E outcome \in IF plKinds[t] = "function"
                            THEN {"fulfilled", "rejected"}
                            ELSE {"rejected"} :
                plTask' = [plTask EXCEPT ![t] = outcome]
    /\ UNCHANGED <<plKinds, plConcurrency, plSignal, plTaskIndex, plCompleted,
                   plResults, plErrors, plWorkers, plInvoked, plOutcome, plPc,
                   plOnProgress, plCrashes, plOthers>>

\* A worker resumes after its await: the result is stored, or the error is
\* tagged and pushed; then completed is incremented, onProgress called and
\* the loop goes on.  When the error takes no tag, or onProgress throws,
\* the error leaves the worker.
PlResume ==
    /\ PlCalled
    /\ \E w \in 1..Len(plWorkers) :
          /\ plWorkers[w].pc = "await"
          /\ LET idx == plWorkers[w].idx
                 kind == plKinds[idx + 1]
             IN /\ plTask[idx + 1] \in {"fulfilled", "rejected"}
                /\ plResults' = IF plTask[idx + 1] = "fulfilled"
                                THEN StoreResult(plResults, idx, plCompleted)
                                ELSE plResults
                /\ LET p == IF plTask[idx + 1] = "rejected"
                               /\ kind \in Untaggable
                            THEN Crash(PlState, w, idx, TagError(kind))
                            ELSE WorkerProgress(
                                   [PlState EXCEPT
                                      !.task[idx + 1] = "taken",
                                      !.errors =
                                         IF plTask[idx + 1] = "rejected"
                                         THEN Append(@, <<"Error", idx>>)
                                         ELSE @],
                                   w, idx, plKinds, plSignal = "aborted",
                                   plOnProgress)
                   IN /\ plTaskIndex' = p.taskIndex
                      /\ plCompleted' = p.completed
                      /\ plErrors' = p.errors /\ plWorkers' = p.workers
                      /\ plTask' = p.task /\ plInvoked' = p.invoked
                      /\ plCrashes' = p.crashes
    /\ UNCHANGED <<plKinds, plConcurrency, plSignal, plOutcome, plPc,
                   plOnProgress, plOthers>>

\* The signal is aborted.
PlAbort ==
    /\ PlCalled /\ plSignal = "live"
    /\ plSignal' = "aborted"
    /\ UNCHANGED <<plKinds, plConcurrency, plTaskIndex, plCompleted, plResults,
                   plErrors, plWorkers, plTask, plInvoked, plOutcome,
                   plPc, plOnProgress, plCrashes, plOthers>>

\* `await Promise.all(workers)` has settled.  It rejects as soon as one
\* worker's promise is rejected, with that worker's error, whatever the
\* other workers are doing: pool throws it.  When every worker has
\* returned, pool throws the error, an AggregateError of the errors, or
\* returns the results.
PlFinish ==
    /\ plPc = "running"
    /\ \/ plCrashes # <<>>
       \/ \A w \in 1..Len(plWorkers) : plWorkers[w].pc = "done"
    /\ plOutcome' =
          IF plCrashes # <<>>
          THEN [outcome |-> "throw", error |-> plWorkers[plCrashes[1]].error]
          ELSE IF Len(plErrors) = 1
          THEN [outcome |-> "throw", error |-> plErrors[1]]
          ELSE IF Len(plErrors) > 1
          THEN [outcome |-> "throw", error |-> <<"AggregateError", plErrors>>]
          ELSE [outcome |-> "return", value |-> plResults]
    /\ plPc' = "settled"
    /\ UNCHANGED <<plKinds, plConcurrency, plSignal, plTaskIndex, plCompleted,
                   plResults, plErrors, plWorkers, plTask, plInvoked,
                   plOnProgress, plCrashes, plOthers>>

PlNext == PlCall \/ PlCallEmpty \/ PlSettle \/ PlResume \/ PlAbort \/ PlFinish

SpecPl == Init /\ [][PlNext]_vars

(***************************************************************************)
(* Properties of pool.                                                     *)
(***************************************************************************)
PlTaskIndices == 1..Len(plKinds)

\* No element of tasks failed and the signal was not aborted.
NoFailureNoAbort ==
    /\ \A t \in PlTaskIndices : plKinds[t] = "function"
    /\ plErrors = <<>>
    /\ \A t \in PlTaskIndices : plTask[t] # "rejected"
    /\ plSignal # "aborted"

\* C27: when no task fails and no abort is signalled, no task is ever called
\* twice, and once pool has settled every task has been called exactly once
\* and pool has returned an array whose i-th element is the value task i
\* produced, in whatever order the tasks settled.
C27_ResultsInTaskOrder ==
    /\ \A t \in PlTaskIndices : plInvoked[t] <= 1
    /\ (plPc = "settled" /\ NoFailureNoAbort) =>
          /\ \A t \in PlTaskIndices : plInvoked[t] = 1
          /\ plOutcome.outcome = "return"
          /\ Len(plOutcome.value) = Len(plKinds)
          /\ \A t \in PlTaskIndices : plOutcome.value[t] = ValueOf(t - 1)

PlInFlight == {t \in PlTaskIndices : plTask[t] = "started"}

\* C28: at every moment, before and after pool's promise has settled, the
\* number of tasks that have been started and have not settled is at most
\* the concurrency cap and at most the number of tasks.
C28_InFlightWithinCap ==
    PlCalled =>
        /\ Cardinality(PlInFlight) <= Cap(plConcurrency)
        /\ Cardinality(PlInFlight) <= Len(plKinds)

\* Two of three tasks are in flight under a cap of two, the third waits.
C28_Witness ==
    /\ plPc = "running" /\ Len(plKinds) = MaxPoolTasks /\ plConcurrency = 2
    /\ Cardinality(PlInFlight) = 2
    /\ plTask[MaxPoolTasks] = "new"

(***************************************************************************)
(* The test runner of test-framework/runner.js.  A test file is a sequence *)
(* of calls of the functions createRunner returns; "end" is the return of  *)
(* the function passed to describe.  Suites and tests are kept in the      *)
(* order of their creation and referred to by their position (the root     *)
(* suite is 1, `null` is 0).  A hook or a test body is a callback known by *)
(* its name; runWithTimeout(callback) either resolves ("ok") or rejects:   *)
(* the callback threw, rejected or timed out.  What it rejects with        *)
(* matters to the catch clauses: a truthy value such as an Error or a      *)
(* non-empty string ("throw"), a falsy value that has properties, such as  *)
(* 0 or "" ("throwFalsy"), or null or undefined ("throwNull"), of which    *)
(* `err.message` throws a TypeError.  run() is one action per synchronous  *)
(* run of its code: its work still to do is rnAgenda, whose head is what   *)
(* the code does next.  rnPc is "rejected" once run()'s promise is.        *)
(***************************************************************************)
MaxThrows == 2

NoSuite == 0
RootSuite == 1

\* createSuite(name, parent), with only and skip as describe sets them
createSuite(name, parent, depth, only, skip) ==
    [name |-> name, parent |-> parent, depth |-> depth,
     tests |-> <<>>, suites |-> <<>>,
     beforeAllHooks |-> <<>>, afterAllHooks |-> <<>>,
     beforeEachHooks |-> <<>>, afterEachHooks |-> <<>>,
     only |-> only, skip |-> skip]

\* createTest(name, fn, suite, { skip, only }); fn is known by the name
createTest(name, suite, depth, skip, only) ==
    [name |-> name, suite |-> suite, depth |-> depth,
     skip |-> skip, only |-> only]

Call(op, name, flag) == [op |-> op, name |-> name, flag |-> flag]

\* The test file of the repository's test "nested describe blocks".
ScriptNested ==
    <<Call("describe", "nested", "none"),
      Call("beforeEach", "outer-before", "none"),
      Call("afterEach", "outer-after", "none"),
      Call("describe", "inner", "none"),
      Call("beforeEach", "inner-before", "none"),
      Call("afterEach", "inner-after", "none"),
      Call("it", "runs", "none"),
      Call("end", "", "none"),
      Call("end", "", "none")>>

\* The test file of the repository's test "only tests run in only mode".
ScriptOnlyTest ==
    <<Call("describe", "suite", "none"),
      Call("it", "normal", "none"),
      Call("it", "only", "only"),
      Call("end", "", "none")>>

\* describe.only with a test and a nested plain suite, beside a plain suite.
ScriptOnlySuite ==
    <<Call("describe", "outer", "only"),
      Call("it", "a", "none"),
      Call("describe", "inner", "none"),
      Call("it", "b", "none"),
      Call("end", "", "none"),
      Call("end", "", "none"),
      Call("describe", "other", "none"),
      Call("it", "c", "none"),
      Call("end", "", "none")>>

\* Skipped tests and a skipped suite, no only.
ScriptSkip ==
    <<Call("it", "top", "none"),
      Call("describe", "suite", "none"),
      Call("it", "skipped", "skip"),
      Call("it", "plain", "none"),
      Call("end", "", "none"),
      Call("describe", "off", "skip"),
      Call("it", "never", "none"),
      Call("end", "", "none")>>

\* Hooks of every kind on three levels, two afterEach hooks in one suite,
\* a hook registered after the test it applies to.
ScriptHooks ==
    <<Call("beforeEach", "b0", "none"),
      Call("afterEach", "a0", "none"),
      Call("describe", "one", "none"),
      Call("beforeAll", "ba1", "none"),
      Call("it", "t1", "none"),
      Call("afterEach", "a1", "none"),
      Call("afterEach", "a1x", "none"),
      Call("describe", "two", "none"),
      Call("beforeEach", "b2", "none"),
      Call("afterEach", "a2", "none"),
      Call("it", "t2", "none"),
      Call("end", "", "none"),
      Call("afterAll", "aa1", "none"),
      Call("end", "", "none")>>

\* An only test below a plain suite that has hooks, a skipped only test,
\* and an only suite inside a plain one.
ScriptOnlyDeep ==
    <<Call("describe", "plain", "none"),
      Call("beforeEach", "pb", "none"),
      Call("it", "x", "none"),
      Call("it", "y", "only"),
      Call("describe", "marked", "only"),
      Call("afterEach", "ma", "none"),
      Call("it", "z", "none"),
      Call("it", "w", "skip"),
      Call("end", "", "none"),
      Call("end", "", "none"),
      Call("it", "root", "none")>>

RnScripts ==
    {ScriptNested, ScriptOnlyTest, ScriptOnlySuite, ScriptSkip, ScriptHooks,
     ScriptOnlyDeep}

\* #checkHasOnly(suite)
RECURSIVE checkHasOnly(_, _, _)
checkHasOnly(suites, tests, s) ==
    \/ suites[s].only
    \/ \E k \in 1..Len(suites[s].tests) : tests[suites[s].tests[k]].only
    \/ \E k \in 1..Len(suites[s].suites) :
          checkHasOnly(suites, tests, suites[s].suites[k])

\* #isSuiteOnly(suite)
RECURSIVE isSuiteOnly(_, _)
isSuiteOnly(suites, s) ==
    IF s = NoSuite THEN FALSE
    ELSE IF suites[s].only THEN TRUE
    ELSE isSuiteOnly(suites, suites[s].parent)

\* The tests #skipSuite(suite) reports, in its order: those of the k-th
\* nested suite on (SkipNested), and those of the suite (skipSuite).
RECURSIVE skipSuite(_, _)
RECURSIVE SkipNested(_, _, _)
SkipNested(suites, s, k) ==
    IF k > Len(suites[s].suites) THEN <<>>
    ELSE skipSuite(suites, suites[s].suites[k]) \o SkipNested(suites, s, k + 1)

skipSuite(suites, s) == suites[s].tests \o SkipNested(suites, s, 1)

Event(ev, id, t, outcome) ==
    [ev |-> ev, id |-> id, test |-> t, outcome |-> outcome]

Item(k, id, be, ae, err) ==
    [k |-> k, id |-> id, be |-> be, ae |-> ae, err |-> err]

\* `[...parentBeforeEach, ...suite.beforeEachHooks]`
AllBeforeEach(suite, parentBeforeEach) ==
    parentBeforeEach \o suite.beforeEachHooks

\* `[...suite.afterEachHooks, ...parentAfterEach]`
AllAfterEach(suite, parentAfterEach) ==
    suite.afterEachHooks \o parentAfterEach

\* What #runSuite does for a suite it does not pass over, in order: the
\* beforeAll hooks, the tests, the nested suites, the afterAll hooks.
SuiteWork(suite, parentBeforeEach, parentAfterEach) ==
    LET be == AllBeforeEach(suite, parentBeforeEach)
        ae == AllAfterEach(suite, parentAfterEach)
    IN [k \in 1..Len(suite.beforeAllHooks) |->
            Item("beforeAll", suite.beforeAllHooks[k], <<>>, <<>>, FALSE)]
       \o [k \in 1..Len(suite.tests) |->
            Item("test", suite.tests[k], be, ae, FALSE)]
       \o [k \in 1..Len(suite.suites) |->
            Item("suite", suite.suites[k], be, ae, FALSE)]
       \o [k \in 1..Len(suite.afterAllHooks) |->
            Item("afterAll", suite.afterAllHooks[k], <<>>, <<>>, FALSE)]

\* The outcomes a callback may have: at most MaxThrows callbacks throw.
Rejections == {"throw", "throwFalsy", "throwNull"}

Outcomes == IF rnThrows < MaxThrows THEN {"ok"} \cup Rejections ELSE {"ok"}

Thrown(outcome) == IF outcome = "ok" THEN 0 ELSE 1

\* What the log says of a callback: it returned or it threw.
Logged(outcome) == IF outcome = "ok" THEN "ok" ELSE "throw"

\* `testError = err` makes `if (testError)` true.
Truthy(outcome) == outcome = "throw"

RnHeadIs(k) ==
    /\ rnPc = "running" /\ rnAgenda # <<>> /\ Head(rnAgenda).k = k

RnCallIs(op) ==
    /\ rnPc = "collect" /\ rnScript # <<>> /\ Head(rnScript).op = op

\* createRunner(): a runner with an empty root suite; the test file is
\* about to be executed.
RnCreate ==
    /\ NoCall
    /\ rnScript' \in RnScripts
    /\ rnSuites' = <<createSuite("", NoSuite, 0, FALSE, FALSE)>>
    /\ rnCurrent' = RootSuite
    /\ rnPc' = "collect"
    /\ UNCHANGED <<rnTests, rnHasOnly, rnAgenda, rnLog, rnThrows, rnStats,
                   rnOthers>>

\* reset(), called by the test file outside every describe function: the
\* root is a new empty suite and #current is the root.
RnReset ==
    /\ rnPc = "collect" /\ rnCurrent = RootSuite
    /\ rnSuites' = <<createSuite("", NoSuite, 0, FALSE, FALSE)>>
    /\ rnTests' = <<>>
    /\ rnCurrent' = RootSuite
    /\ UNCHANGED <<rnScript, rnHasOnly, rnAgenda, rnLog, rnThrows, rnStats,
                   rnPc, rnOthers>>

\* describe / describe.only / describe.skip (name, fn), up to the call of fn
RnDescribe ==
    /\ RnCallIs("describe")
    /\ LET c == Head(rnScript)
           n == Len(rnSuites) + 1
       IN /\ rnSuites' =
                Append([rnSuites EXCEPT ![rnCurrent].suites = Append(@, n)],
                       createSuite(c.name, rnCurrent,
                                   rnSuites[rnCurrent].depth + 1,
                                   c.flag = "only", c.flag = "skip"))
          /\ rnCurrent' = n
    /\ rnScript' = Tail(rnScript)
    /\ UNCHANGED <<rnTests, rnHasOnly, rnAgenda, rnLog, rnThrows, rnStats,
                   rnPc, rnOthers>>

\* fn returns: `this.#current = prev`
RnDescribeEnd ==
    /\ RnCallIs("end")
    /\ rnCurrent' = rnSuites[rnCurrent].parent
    /\ rnScript' = Tail(rnScript)
    /\ UNCHANGED <<rnSuites, rnTests, rnHasOnly, rnAgenda, rnLog, rnThrows,
                   rnStats, rnPc, rnOthers>>

\* it / it.only / it.skip (name, fn)
RnIt ==
    /\ RnCallIs("it")
    /\ LET c == Head(rnScript)
           n == Len(rnTests) + 1
       IN /\ rnTests' = Append(rnTests,
                               createTest(c.name, rnCurrent,
                                          rnSuites[rnCurrent].depth + 1,
                                          c.flag = "skip", c.flag = "only"))
          /\ rnSuites' = [rnSuites EXCEPT ![rnCurrent].tests = Append(@, n)]
    /\ rnScript' = Tail(rnScript)
    /\ UNCHANGED <<rnCurrent, rnHasOnly, rnAgenda, rnLog, rnThrows, rnStats,
                   rnPc, rnOthers>>

\* beforeAll(fn)
RnBeforeAll ==
    /\ RnCallIs("beforeAll")
    /\ rnSuites' = [rnSuites EXCEPT ![rnCurrent].beforeAllHooks =
                                       Append(@, Head(rnScript).name)]
    /\ rnScript' = Tail(rnScript)
    /\ UNCHANGED <<rnTests, rnCurrent, rnHasOnly, rnAgenda, rnLog, rnThrows,
                   rnStats, rnPc, rnOthers>>

\* afterAll(fn)
RnAfterAll ==
    /\ RnCallIs("afterAll")
    /\ rnSuites' = [rnSuites EXCEPT ![rnCurrent].afterAllHooks =
                                       Append(@, Head(rnScript).name)]
    /\ rnScript' = Tail(rnScript)
    /\ UNCHANGED <<rnTests, rnCurrent, rnHasOnly, rnAgenda, rnLog, rnThrows,
                   rnStats, rnPc, rnOthers>>

\* beforeEach(fn)
RnBeforeEach ==
    /\ RnCallIs("beforeEach")
    /\ rnSuites' = [rnSuites EXCEPT ![rnCurrent].beforeEachHooks =
                                       Append(@, Head(rnScript).name)]
    /\ rnScript' = Tail(rnScript)
    /\ UNCHANGED <<rnTests, rnCurrent, rnHasOnly, rnAgenda, rnLog, rnThrows,
                   rnStats, rnPc, rnOthers>>

\* afterEach(fn)
RnAfterEach ==
    /\ RnCallIs("afterEach")
    /\ rnSuites' = [rnSuites EXCEPT ![rnCurrent].afterEachHooks =
                                       Append(@, Head(rnScript).name)]
    /\ rnScript' = Tail(rnScript)
    /\ UNCHANGED <<rnTests, rnCurrent, rnHasOnly, rnAgenda, rnLog, rnThrows,
                   rnStats, rnPc, rnOthers>>

\* run(), up to the call of #runSuite(this.#root, [], [], ...)
RnRun ==
    /\ rnPc = "collect" /\ rnScript = <<>>
    /\ rnHasOnly' = checkHasOnly(rnSuites, rnTests, RootSuite)
    /\ rnAgenda' = <<Item("suite", RootSuite, <<>>, <<>>, FALSE)>>
    /\ rnPc' = "running"
    /\ UNCHANGED <<rnScript, rnSuites, rnTests, rnCurrent, rnLog, rnThrows,
                   rnStats, rnOthers>>

\* The events of the tests #skipSuite or #runTest reports as skipped.
SkipEvents(ts) ==
    [k \in 1..Len(ts) |-> Event("skip", rnTests[ts[k]].name, ts[k], "ok")]

\* The test is reported: failed if testError is set, passed otherwise.
Report(t, err) ==
    Event(IF err THEN "fail" ELSE "pass", rnTests[t].name, t, "ok")

Count(stats, err) ==
    IF err THEN [stats EXCEPT !.failed = @ + 1]
    ELSE [stats EXCEPT !.passed = @ + 1]

\* #runSuite(suite, parentBeforeEach, parentAfterEach, ...), up to its
\* first await: the suite is skipped, passed over, or its work is laid out.
RnRunSuite ==
    /\ RnHeadIs("suite")
    /\ LET it == Head(rnAgenda)
           suite == rnSuites[it.id]
       IN IF suite.skip /\ ~suite.only
          THEN /\ rnLog' = rnLog \o SkipEvents(skipSuite(rnSuites, it.id))
               /\ rnStats' = [rnStats EXCEPT !.skipped =
                                 @ + Len(skipSuite(rnSuites, it.id))]
               /\ rnAgenda' = Tail(rnAgenda)
          ELSE IF rnHasOnly /\ ~suite.only
                  /\ ~checkHasOnly(rnSuites, rnTests, it.id)
          THEN /\ rnAgenda' = Tail(rnAgenda)
               /\ UNCHANGED <<rnLog, rnStats>>
          ELSE /\ rnLog' = IF suite.name # ""
                           THEN Append(rnLog,
                                       Event("suite", suite.name, 0, "ok"))
                           ELSE rnLog
               /\ rnAgenda' = SuiteWork(suite, it.be, it.ae) \o Tail(rnAgenda)
               /\ UNCHANGED rnStats
    /\ UNCHANGED <<rnScript, rnSuites, rnTests, rnCurrent, rnHasOnly, rnThrows,
                   rnPc, rnOthers>>

\* `await runWithTimeout(hook, ...)` of a beforeAll or afterAll hook: when
\* it rejects, #runSuite and run() reject.
RnHookAll ==
    /\ RnHeadIs("beforeAll") \/ RnHeadIs("afterAll")
    /\ \E outcome \in Outcomes :
          /\ rnLog' = Append(rnLog, Event(Head(rnAgenda).k, Head(rnAgenda).id,
                                          0, Logged(outcome)))
          /\ rnThrows' = rnThrows + Thrown(outcome)
          /\ IF outcome # "ok"
             THEN rnAgenda' = <<>> /\ rnPc' = "rejected"
             ELSE rnAgenda' = Tail(rnAgenda) /\ rnPc' = rnPc
    /\ UNCHANGED <<rnScript, rnSuites, rnTests, rnCurrent, rnHasOnly, rnStats,
                   rnOthers>>

\* #runTest(test, beforeEachHooks, afterEachHooks, ...), up to its first
\* await: the test is reported as skipped, or its first callback is next.
RnRunTest ==
    /\ RnHeadIs("test")
    /\ LET it == Head(rnAgenda)
           test == rnTests[it.id]
       IN IF test.skip
             \/ (rnHasOnly /\ ~test.only /\ ~isSuiteOnly(rnSuites, test.suite))
          THEN /\ rnLog' = rnLog \o SkipEvents(<<it.id>>)
               /\ rnStats' = [rnStats EXCEPT !.skipped = @ + 1]
               /\ rnAgenda' = Tail(rnAgenda)
          ELSE /\ rnAgenda' =
                    <<Item(IF it.be = <<>> THEN "body" ELSE "beforeEach",
                           it.id, it.be, it.ae, FALSE)>> \o Tail(rnAgenda)
               /\ UNCHANGED <<rnLog, rnStats>>
    /\ UNCHANGED <<rnScript, rnSuites, rnTests, rnCurrent, rnHasOnly, rnThrows,
                   rnPc, rnOthers>>

\* `await runWithTimeout(hook, ...)` of the next beforeEach hook: when it
\* rejects the test is reported as failed and #runTest returns; when it
\* rejects with null or undefined, `err.message` throws in the catch and
\* #runTest, #runSuite and run() reject.
RnRunBeforeEach ==
    /\ RnHeadIs("beforeEach")
    /\ LET it == Head(rnAgenda)
           ran(outcome) == Event("beforeEach", Head(it.be), it.id,
                                 Logged(outcome))
       IN \E outcome \in Outcomes :
             /\ rnThrows' = rnThrows + Thrown(outcome)
             /\ IF outcome = "throwNull"
                THEN /\ rnLog' = Append(rnLog, ran(outcome))
                     /\ rnAgenda' = <<>> /\ rnPc' = "rejected"
                     /\ UNCHANGED rnStats
                ELSE IF outcome # "ok"
                THEN /\ rnLog' = rnLog \o <<ran(outcome), Report(it.id, TRUE)>>
                     /\ rnStats' = Count(rnStats, TRUE)
                     /\ rnAgenda' = Tail(rnAgenda) /\ rnPc' = rnPc
                ELSE /\ rnLog' = Append(rnLog, ran(outcome))
                     /\ rnAgenda' =
                          <<Item(IF Tail(it.be) = <<>> THEN "body"
                                 ELSE "beforeEach",
                                 it.id, Tail(it.be), it.ae, FALSE)>>
                          \o Tail(rnAgenda)
                     /\ rnPc' = rnPc
                     /\ UNCHANGED rnStats
    /\ UNCHANGED <<rnScript, rnSuites, rnTests, rnCurrent, rnHasOnly,
                   rnOthers>>

\* `await runWithTimeout(test.fn, ...)`: when it rejects, testError is what
\* it rejected with, which counts as an error only if it is truthy;
\* without afterEach hooks the test is reported.
RnRunBody ==
    /\ RnHeadIs("body")
    /\ LET it == Head(rnAgenda)
           ran(outcome) == Event("body", rnTests[it.id].name, it.id,
                                 Logged(outcome))
       IN \E outcome \in Outcomes :
             /\ rnThrows' = rnThrows + Thrown(outcome)
             /\ IF it.ae = <<>>
                THEN /\ rnLog' = rnLog \o
                           <<ran(outcome), Report(it.id, Truthy(outcome))>>
                     /\ rnStats' = Count(rnStats, Truthy(outcome))
                     /\ rnAgenda' = Tail(rnAgenda)
                ELSE /\ rnLog' = Append(rnLog, ran(outcome))
                     /\ rnAgenda' =
                          <<Item("afterEach", it.id, <<>>, it.ae,
                                 Truthy(outcome))>> \o Tail(rnAgenda)
                     /\ UNCHANGED rnStats
    /\ UNCHANGED <<rnScript, rnSuites, rnTests, rnCurrent, rnHasOnly, rnPc,
                   rnOthers>>

\* `await runWithTimeout(hook, ...)` of the next afterEach hook: a rejection
\* sets testError to a new Error if it is not set, which throws in the
\* catch when the hook rejected with null or undefined: #runTest,
\* #runSuite and run() reject.  After the last hook the test is reported.
RnRunAfterEach ==
    /\ RnHeadIs("afterEach")
    /\ LET it == Head(rnAgenda)
           ran(outcome) == Event("afterEach", Head(it.ae), it.id,
                                 Logged(outcome))
       IN \E outcome \in Outcomes :
             LET err == it.err \/ outcome # "ok"
             IN /\ rnThrows' = rnThrows + Thrown(outcome)
                /\ IF ~it.err /\ outcome = "throwNull"
                   THEN /\ rnLog' = Append(rnLog, ran(outcome))
                        /\ rnAgenda' = <<>> /\ rnPc' = "rejected"
                        /\ UNCHANGED rnStats
                   ELSE IF Tail(it.ae) = <<>>
                   THEN /\ rnLog' = rnLog \o
                              <<ran(outcome), Report(it.id, err)>>
                        /\ rnStats' = Count(rnStats, err)
                        /\ rnAgenda' = Tail(rnAgenda) /\ rnPc' = rnPc
                   ELSE /\ rnLog' = Append(rnLog, ran(outcome))
                        /\ rnAgenda' =
                             <<Item("afterEach", it.id, <<>>, Tail(it.ae), err)>>
                             \o Tail(rnAgenda)
                        /\ rnPc' = rnPc
                        /\ UNCHANGED rnStats
    /\ UNCHANGED <<rnScript, rnSuites, rnTests, rnCurrent, rnHasOnly,
                   rnOthers>>

\* #runSuite(this.#root, ...) has returned: run() returns
\* { stats, passed: stats.failed === 0 }.
RnEnd ==
    /\ rnPc = "running" /\ rnAgenda = <<>>
    /\ rnPc' = "done"
    /\ UNCHANGED <<rnScript, rnSuites, rnTests, rnCurrent, rnHasOnly, rnAgenda,
                   rnLog, rnThrows, rnStats, rnOthers>>

RnNext ==
    \/ RnCreate \/ RnReset \/ RnDescribe \/ RnDescribeEnd \/ RnIt
    \/ RnBeforeAll \/ RnAfterAll \/ RnBeforeEach \/ RnAfterEach
    \/ RnRun \/ RnRunSuite \/ RnHookAll \/ RnRunTest
    \/ RnRunBeforeEach \/ RnRunBody \/ RnRunAfterEach \/ RnEnd

SpecRn == Init /\ [][RnNext]_vars

(***************************************************************************)
(* Properties of the test runner.                                          *)
(***************************************************************************)
\* The suites that contain suite s, outermost first, s last.
RECURSIVE SuitePath(_)
SuitePath(s) ==
    IF s = NoSuite THEN <<>> ELSE Append(SuitePath(rnSuites[s].parent), s)

RnTestIds == 1..Len(rnTests)

Executed == {t \in RnTestIds :
                \E p \in 1..Len(rnLog) :
                    rnLog[p].ev = "body" /\ rnLog[p].test = t}

OnlyMode ==
    \/ \E s \in 1..Len(rnSuites) : rnSuites[s].only
    \/ \E t \in RnTestIds : rnTests[t].only

\* The test is not marked skip and is in no suite marked skip.
NonSkipped(t) ==
    /\ ~rnTests[t].skip
    /\ \A k \in 1..Len(SuitePath(rnTests[t].suite)) :
          ~rnSuites[SuitePath(rnTests[t].suite)[k]].skip

InOnlySuite(t) ==
    \E k \in 1..Len(SuitePath(rnTests[t].suite)) :
        rnSuites[SuitePath(rnTests[t].suite)[k]].only

NoHookThrew ==
    \A p \in 1..Len(rnLog) :
        rnLog[p].ev \in {"beforeEach", "beforeAll", "afterAll"}
            => rnLog[p].outcome = "ok"

\* C29: in only mode, when run() has returned and no hook kept a body from
\* running, the tests whose bodies were executed are exactly the
\* non-skipped tests that are marked only or are contained, at any depth,
\* in a suite marked only.
C29_OnlyModeRunsExactlyOnly ==
    (rnPc = "done" /\ OnlyMode /\ NoHookThrew) =>
        Executed = {t \in RnTestIds :
                       NonSkipped(t) /\ (rnTests[t].only \/ InOnlySuite(t))}

\* The beforeEach hooks of the suites from the k-th of the path on, and the
\* afterEach hooks of the suites from the k-th of the path back.
RECURSIVE BeforeFrom(_, _)
BeforeFrom(sp, k) ==
    IF k > Len(sp) THEN <<>>
    ELSE rnSuites[sp[k]].beforeEachHooks \o BeforeFrom(sp, k + 1)

RECURSIVE AfterFrom(_, _)
AfterFrom(sp, k) ==
    IF k < 1 THEN <<>>
    ELSE rnSuites[sp[k]].afterEachHooks \o AfterFrom(sp, k - 1)

ExpectedBefore(t) == BeforeFrom(SuitePath(rnTests[t].suite), 1)
ExpectedAfter(t) ==
    AfterFrom(SuitePath(rnTests[t].suite), Len(SuitePath(rnTests[t].suite)))

Reported(t) ==
    \E p \in 1..Len(rnLog) :
        rnLog[p].ev \in {"pass", "fail"} /\ rnLog[p].test = t

\* The names of the callbacks of kind ev run for test t in rnLog[from..to].
HooksIn(ev, t, from, to) ==
    [k \in 1..(to - from + 1) |->
        IF rnLog[from + k - 1].ev = ev /\ rnLog[from + k - 1].test = t
        THEN rnLog[from + k - 1].id ELSE "?"]

\* run() has settled: it has returned or its promise is rejected.
RunOver == rnPc \in {"done", "rejected"}

\* C30: for every executed test body, the callbacks run just before it are
\* the beforeEach hooks of the enclosing suites, outermost suite first,
\* each having succeeded; the callbacks run after it are the afterEach
\* hooks of the enclosing suites, innermost suite first, and all of them
\* have run when the test is reported or the run is over, whether or not
\* the body threw.
C30_HooksAroundBody ==
    \A p \in 1..Len(rnLog) :
        rnLog[p].ev = "body" =>
            LET t == rnLog[p].test
                nb == Len(ExpectedBefore(t))
                na == Len(ExpectedAfter(t))
                got == Min(na, Len(rnLog) - p)
            IN /\ p > nb
               /\ HooksIn("beforeEach", t, p - nb, p - 1) = ExpectedBefore(t)
               /\ \A k \in (p - nb)..(p - 1) : rnLog[k].outcome = "ok"
               /\ HooksIn("afterEach", t, p + 1, p + got)
                     = SubSeq(ExpectedAfter(t), 1, got)
               /\ (Reported(t) \/ RunOver) => got = na
               /\ \A k \in 1..Len(rnLog) :
                     (rnLog[k].test = t /\ rnLog[k].ev = "beforeEach") => k < p
               /\ \A k \in 1..Len(rnLog) :
                     (rnLog[k].test = t /\ rnLog[k].ev = "afterEach") => k > p

(***************************************************************************)
(* Further properties of the tokenizer.                                    *)
(***************************************************************************)
\* The number of newline characters among the first n characters of src.
NewlinesBefore(src, n) == Cardinality({k \in 1..n : src[k] = NL})

\* A token is added by the step.
TokenAdded == pc = "scan" /\ Len(tokens') = Len(tokens) + 1

\* C31: every token's recorded line is 1 plus the number of newline
\* characters that precede its first character in the source: whenever a
\* token is added, it starts at the cursor i and its line is
\* 1 + the newlines among the first i characters.
C31_LineCountsNewlines ==
    [][TokenAdded =>
          tokens'[Len(tokens')].line = 1 + NewlinesBefore(source, i)]_vars

\* The characters the step consumed.
Span == SubSeq(source, i + 1, Min(i', Len(source)))

\* The n-th character of v follows an odd number of backslashes: it is
\* the character a backslash consumed.
RECURSIVE BackslashesBefore(_, _)
BackslashesBefore(v, n) ==
    IF n <= 1 THEN 0
    ELSE IF v[n - 1] = BS THEN 1 + BackslashesBefore(v, n - 1) ELSE 0

Escaped(v, n) == BackslashesBefore(v, n) % 2 = 1

\* The n-th character of a regex literal v is inside a character class:
\* the last unescaped bracket before it is an opening one.
InCharClass(v, n) ==
    LET brackets == {m \in 2..(n - 1) : v[m] \in {"[", "]"} /\ ~Escaped(v, m)}
    IN /\ brackets # {}
       /\ v[CHOOSE m \in brackets : \A b \in brackets : b <= m] = "["

\* The positions of v at which a string opened by v[1] closes or breaks off.
StringEnds(v) ==
    {n \in 2..Len(v) : v[n] \in {v[1], NL} /\ ~Escaped(v, n)}

\* The positions of v at which a regex literal closes.
RegexCloses(v) ==
    {n \in 2..Len(v) : v[n] = "/" /\ ~Escaped(v, n) /\ ~InCharClass(v, n)}

\* C32: in a string literal only an unescaped quote of its kind or an
\* unescaped line break ends the literal, and nothing else than such a
\* character or the end of the input does; a regex literal ends with its
\* first unescaped `/` outside a character class followed by flags, and
\* without one it stops before the first unescaped line break or at the
\* end of the input.  In each case the scanner goes on behind the literal.
C32_LiteralEnds ==
    [][TokenAdded =>
        LET tok == tokens'[Len(tokens')]
            v == Span
        IN /\ tok.type = "string" =>
                /\ tok.value = v /\ pc' = "scan"
                /\ StringEnds(v) \subseteq {Len(v)}
                /\ StringEnds(v) = {} => i' >= Len(source)
           /\ tok.type = "regex" =>
                /\ tok.value = v /\ pc' = "scan"
                /\ \A n \in 2..Len(v) : v[n] = NL => Escaped(v, n)
                /\ \A n \in RegexCloses(v) :
                      /\ \A m \in RegexCloses(v) : n = m
                      /\ \A m \in (n + 1)..Len(v) : v[m] \in RegexFlagChars
                /\ RegexCloses(v) = {} =>
                      \/ i' >= Len(source)
                      \/ source[i' + 1] = NL
                /\ RegexCloses(v) # {} /\ i' < Len(source) =>
                      source[i' + 1] \notin RegexFlagChars]_vars

\* The tokenizer has returned a string that holds an escaped quote of its
\* own kind before its closing quote, and a token after that string.
C32_Witness ==
    /\ pc = "done"
    /\ \E k \in 1..(Len(tokens) - 1) :
          /\ tokens[k].type = "string"
          /\ tokens[k].value[Len(tokens[k].value)] = tokens[k].value[1]
          /\ \E n \in 2..(Len(tokens[k].value) - 1) :
                /\ tokens[k].value[n] = tokens[k].value[1]
                /\ Escaped(tokens[k].value, n)

(***************************************************************************)
(* The end of a template literal by the structure of the language: the     *)
(* text of a template runs to its closing backtick, `${` opens an embedded *)
(* expression that runs to its matching `}`, and inside an expression a    *)
(* `{` opens a block, a backtick a nested template and a quote a string.   *)
(* The stack holds what is open: "text" for a template, "expr" for an      *)
(* expression or a block.  All indices are 0-based.                        *)
(***************************************************************************)
\* The index behind the string that opens at k with quote q.
RECURSIVE QuotedEnd(_, _, _)
QuotedEnd(src, q, k) ==
    IF k >= Len(src) THEN Len(src)
    ELSE IF src[k + 1] = BS THEN QuotedEnd(src, q, k + 2)
    ELSE IF src[k + 1] \in {q, NL} THEN k + 1
    ELSE QuotedEnd(src, q, k + 1)

RECURSIVE TemplateEnd(_, _, _)
TemplateEnd(src, k, open) ==
    IF k >= Len(src) THEN Len(src)
    ELSE LET c == src[k + 1]
             next == IF k + 1 < Len(src) THEN src[k + 2] ELSE ""
             top == open[Len(open)]
             rest == SubSeq(open, 1, Len(open) - 1)
         IN IF top = "text"
            THEN IF c = BS THEN TemplateEnd(src, k + 2, open)
                 ELSE IF c = "$" /\ next = "{"
                 THEN TemplateEnd(src, k + 2, Append(open, "expr"))
                 ELSE IF c = BT
                 THEN IF rest = <<>> THEN k + 1
                      ELSE TemplateEnd(src, k + 1, rest)
                 ELSE TemplateEnd(src, k + 1, open)
            ELSE IF c = "{" THEN TemplateEnd(src, k + 1, Append(open, "expr"))
                 ELSE IF c = "}" THEN TemplateEnd(src, k + 1, rest)
                 ELSE IF c = BT THEN TemplateEnd(src, k + 1, Append(open, "text"))
                 ELSE IF c \in {DQ, SQ}
                 THEN TemplateEnd(src, QuotedEnd(src, c, k + 1), open)
                 ELSE TemplateEnd(src, k + 1, open)

\* C33: a template literal is one token that ends at the backtick that
\* closes it: whenever a template token is added, the characters consumed
\* run to the closing backtick of the literal that opens at the cursor (or
\* to the end of the input when there is none), so that no brace or
\* backtick inside an embedded expression, a nested template literal
\* included, ends the literal.
C33_TemplateEndsAtItsBacktick ==
    [][(TokenAdded /\ tokens'[Len(tokens')].type = "template") =>
          Min(i', Len(source)) = TemplateEnd(source, i + 1, <<"text">>)]_vars

\* The entries of the operator table that the input continues with at the
\* 0-based index k.
OperatorPrefixes(src, k) ==
    {n \in 1..Len(OPERATORS) :
        /\ k + Len(OPERATORS[n]) <= Len(src)
        /\ SubSeq(src, k + 1, k + Len(OPERATORS[n])) = OPERATORS[n]}

\* C34: whenever an operator token is added, its text is an entry of the
\* operator table that the remaining input starts with, no longer entry of
\* the table is a prefix of the remaining input, and exactly the
\* characters of that operator are consumed; the table lists its entries
\* from the longest to the shortest.
C34_LongestOperator ==
    [][(TokenAdded /\ tokens'[Len(tokens')].type = "operator") =>
          LET op == tokens'[Len(tokens')].value
          IN /\ \E n \in OperatorPrefixes(source, i) : OPERATORS[n] = op
             /\ \A n \in OperatorPrefixes(source, i) :
                   Len(OPERATORS[n]) <= Len(op)
             /\ i' = i + Len(op)
             /\ \A a, b \in 1..Len(OPERATORS) :
                   a < b => Len(OPERATORS[a]) >= Len(OPERATORS[b])]_vars

\* The tokenizer has returned `>>>=` and `=>` as one operator token each.
C34_Witness ==
    /\ pc = "done"
    /\ \E k \in 1..Len(tokens) :
          tokens[k].type = "operator" /\ tokens[k].value = <<">", ">", ">", "=">>
    /\ \E k \in 1..Len(tokens) :
          tokens[k].type = "operator" /\ tokens[k].value = <<"=", ">">>

\* The scan stands at a `/` that begins no comment.
AtSlash ==
    /\ pc = "scan" /\ i < Len(source) /\ CharAt(source, i) = "/"
    /\ CharAt(source, i + 1) \notin {"/", "*"}

\* C35: after every step the last-significant-token state is the most
\* recently emitted token that is not a comment, or none if there is none;
\* and a `/` that begins no comment becomes a regex literal or a division
\* operator according to that token alone, whatever comments were emitted
\* after it.
C35_LastSignificantSkipsComments ==
    [][/\ pc' \in {"scan", "done"} =>
             lastSignificant' = PrevSignificant(tokens', Len(tokens') + 1)
       /\ AtSlash =>
             /\ Len(tokens') = Len(tokens) + 1
             /\ IF AmendedRegexContext(PrevSignificant(tokens, Len(tokens) + 1))
                THEN tokens'[Len(tokens')].type = "regex"
                ELSE tokens'[Len(tokens')].type = "operator"]_vars

\* The tokenizer has returned a division operator that directly follows a
\* comment which follows an identifier.
C35_Witness ==
    /\ pc = "done"
    /\ \E k \in 2..(Len(tokens) - 1) :
          /\ tokens[k].type = "comment"
          /\ tokens[k - 1].type = "identifier"
          /\ tokens[k + 1].type = "operator" /\ tokens[k + 1].value = <<"/">>
    /\ lastSignificant = tokens[Len(tokens)]

(***************************************************************************)
(* Further properties of the dead-code detector.                           *)
(***************************************************************************)
\* The tokens at a..b open and close braces in pairs.
BracesPaired(ts, a, b) ==
    /\ Balance(ts, a, b, "{", "}") = 0
    /\ \A m \in a..b : Balance(ts, a, m, "{", "}") >= 0

\* C36: the statement of a jump ends at the first semicolon or closing
\* bracket met with the nesting counter at zero.  In a loop step at a jump
\* outside braceless control statements: an issue is reported only at the
\* token behind that end; none is reported when nothing or the `}` of the
\* block follows; and one is reported at that token when it is no closing
\* bracket and lies in the jump's block.  `return { a: 1, b: [1, 2] };`
\* as the last statement of a block yields no issue, and followed by
\* `g();` it yields one issue, at g.
C36_StatementEndOutsideNesting ==
    [][/\ (/\ dcPc' = "done" /\ dcLines = SplitLines(SrcReturnObjectLast)
           /\ dcTokens = Tokenize(SrcReturnObjectLast))
             => issues' = <<>>
       /\ (/\ dcPc' = "done" /\ dcLines = SplitLines(SrcReturnObject)
           /\ dcTokens = Tokenize(SrcReturnObject))
             => /\ Len(issues') = 1
                /\ TokAt(DcSig, IssueIndex(DcSig, issues'[1])).value = <<"g">>
       /\ DcAtStandaloneJump =>
             LET e == ClaimedStatementEnd(DcSig, dcI)
             IN /\ issues' # issues =>
                      /\ Len(issues') = Len(issues) + 1
                      /\ e < Len(DcSig)
                      /\ issues'[Len(issues')].line = TokAt(DcSig, e).line
                      /\ issues'[Len(issues')].col = TokAt(DcSig, e).col
                /\ (e >= Len(DcSig) \/ IsPunct(TokAt(DcSig, e), "}"))
                      => issues' = issues
                /\ (/\ e < Len(DcSig) /\ ~IsCloser(TokAt(DcSig, e))
                    /\ BracesPaired(DcSig, dcI + 1, e - 1))
                      => issues' # issues]_vars

\* detectDeadCode has returned for the function that returns an object
\* literal and then calls g: the issue is at g, two lines below the brace.
C36_Witness ==
    /\ dcPc = "done" /\ dcTokens = Tokenize(SrcReturnObject)
    /\ Len(issues) = 1
    /\ issues[1].line = 3

(***************************************************************************)
(* Comments and the structural analyses: sources without comments, and the *)
(* same sources with comments put between their tokens, go through         *)
(* analyzeComplexity, detectDeadCode and parseImports.                     *)
(***************************************************************************)
\* The number of comment tokens put into one token array.
MaxComments == 2

\* function f ( ) { if x else if x && x }
CmFunctionElseIf ==
    <<LxFunction, LxF, LxOpenParen, LxCloseParen, LxOpenBrace, LxIf, LxX,
      LxElse, LxIf, LxX, LxAnd, LxX, LxCloseBrace>>
\* x = ( x ) => { return ; x ; }
CmArrowDead ==
    <<LxX, <<"operator", <<"=">>>>, LxOpenParen, LxX, LxCloseParen, LxArrow,
      LxOpenBrace, LxReturn, LxSemicolon, LxX, LxSemicolon, LxCloseBrace>>
\* f = x => { if ( x ) return ; x }
CmArrowBraceless ==
    <<LxF, <<"operator", <<"=">>>>, LxX, LxArrow, LxOpenBrace, LxIf,
      LxOpenParen, LxX, LxCloseParen, LxReturn, LxSemicolon, LxX,
      LxCloseBrace>>
\* import x from './a' ; export x from "b" ; import ( "b" ) ; require ( "b" ) ; import
CmImports ==
    <<LxImport, LxX, LxFrom, LxStringA, LxSemicolon, LxExport, LxX, LxFrom,
      LxStringB, LxSemicolon, LxImport, LxOpenParen, LxStringB, LxCloseParen,
      LxSemicolon, LxRequire, LxOpenParen, LxStringB, LxCloseParen,
      LxSemicolon, LxImport>>
\* function f ( ) { if x if : a body that is never closed
CmUnclosed ==
    <<LxFunction, LxF, LxOpenParen, LxCloseParen, LxOpenBrace, LxIf, LxX,
      LxIf>>
\* return { ) ; x : the statement after the jump is at another depth
CmOtherDepth == <<LxReturn, LxOpenBrace, LxCloseParen, LxSemicolon, LxX>>
\* function ( x ) { } : a function expression without a name
CmAnonymous ==
    <<LxFunction, LxOpenParen, LxX, LxCloseParen, LxOpenBrace, LxCloseBrace>>

CmBases ==
    {CmFunctionElseIf, CmArrowDead, CmArrowBraceless, CmImports, CmUnclosed,
     CmOtherDepth, CmAnonymous}

\* /*c*/
LxComment == <<"comment", <<"/", "*", "c", "*", "/">>>>

\* The lexemes with a comment put after each of them whose (1-based)
\* position is in where.
RECURSIVE WithCommentsFrom(_, _, _)
WithCommentsFrom(lexemes, where, k) ==
    IF k > Len(lexemes) THEN <<>>
    ELSE (IF k \in where THEN <<lexemes[k], LxComment>> ELSE <<lexemes[k]>>)
         \o WithCommentsFrom(lexemes, where, k + 1)

WithComments(lexemes, where) == WithCommentsFrom(lexemes, where, 1)

\* The places between two lexemes.
Between(lexemes) == 1..(Len(lexemes) - 1)

\* The subsets of S with at most n elements.
RECURSIVE SubsetsUpTo(_, _)
SubsetsUpTo(S, n) ==
    IF n = 0 THEN {{}}
    ELSE LET smaller == SubsetsUpTo(S, n - 1)
         IN smaller \cup {s \cup {x} : s \in smaller, x \in S}

\* The source texts: a base, and the base with comments between its
\* lexemes.
CmSources ==
    UNION {{LayOutText(WithComments(b, where)) :
                where \in SubsetsUpTo(Between(b), MaxComments)} :
           b \in CmBases}

\* analyze(source) with no options, as far as its three analyzers: they
\* are given the tokens of the source, its lines and the file name
\* '<source>'.
CmCall ==
    /\ NoCall
    /\ \E src \in CmSources :
          \E toks \in {Tokenize(src)} :
             /\ cxTokens' = toks /\ dcTokens' = toks /\ imTokens' = toks
             /\ dcLines' = SplitLines(src)
    /\ cxI' = 0 /\ fnDefs' = <<>> /\ fnK' = 0 /\ results' = <<>>
    /\ cxPc' = "discover"
    /\ dcI' = 0 /\ issues' = <<>> /\ dcPc' = "scan"
    /\ imFile' = FileSource /\ imI' = 0 /\ imports' = <<>> /\ imPc' = "loop"
    /\ UNCHANGED <<tokVars, bgVars, cdVars, anVars, newVars>>

CmNext == CmCall \/ AzComplexity \/ AzDeadCode \/ AzImports

SpecCm == Init /\ [][CmNext]_vars

\* The three analyzers have returned.
CmDone == cxPc = "done" /\ dcPc = "done" /\ imPc = "done"

\* C37: comment tokens between the other tokens of an array do not change
\* what the analyses return: the complexity results, the dead-code issues
\* and the import records of an array are those of the same array with its
\* comment tokens taken out (so two arrays that differ only in such comments
\* get the same results).
C37_CommentsDoNotCount ==
    (CmDone /\ cxTokens[Len(cxTokens)].type # "comment") =>
        /\ results = AnalyzeComplexity(Significant(cxTokens))
        /\ issues = DetectDeadCode(Significant(dcTokens), dcLines)
        /\ imports = ParseImports(Significant(imTokens), imFile).imports

\* The three analyzers have returned on an array with a comment token
\* between an `else` and its `if`, and the function around them is scored 4
\* (the function, its `if`, the else-if once, the `&&`).
C37_Witness ==
    /\ CmDone
    /\ \E k \in 2..(Len(cxTokens) - 1) :
          /\ cxTokens[k].type = "comment"
          /\ IsKeyword(cxTokens[k - 1], KwElse)
          /\ IsKeyword(cxTokens[k + 1], KwIf)
    /\ results # <<>> /\ results[1].complexity = 4

(***************************************************************************)
(* Further properties of buildGraph: the resolution of specifiers.         *)
(***************************************************************************)
\* The name of the file a path ends in: its part after the last `/`.
FileNameOf(p) == LET parts == SplitPath(p) IN parts[Len(parts)]

\* The resolution as documented: a specifier that does not begin with `.` is
\* kept; otherwise its segments are walked from the directory of fromFile
\* (`.` stays, `..` goes up, a name goes down) and `.js` is added when the
\* file name reached holds no dot.
ResolvedAsNavigation(fromFile, specifier) ==
    IF specifier = <<>> \/ specifier[1] # "." THEN specifier
    ELSE LET reached == JoinPath(ResolveParts(Pop(SplitPath(fromFile)),
                                              SplitPath(specifier), 1))
         IN IF "." \in Range(FileNameOf(reached))
            THEN reached ELSE reached \o <<".", "j", "s">>

\* The loop of buildGraph handles a file of the file data.
BgAtFile == bgPc = "loop" /\ bgI < Len(fileData)

\* C38: when buildGraph handles a file, each of its import records gives the
\* file an edge to the specifier resolved by directory navigation from the
\* file's directory, with `.js` added exactly when the file name reached has
\* no extension, and to the specifier itself when it is not relative.
C38_ResolvedByNavigation ==
    [][BgAtFile =>
          LET data == fileData[bgI + 1]
          IN \A n \in 1..Len(data.imports) :
                ResolvedAsNavigation(data.file, data.imports[n].source)
                    \in Range(graph'.edges[data.file])]_vars

(***************************************************************************)
(* index.js: analyzeFiles(files, options).  The files are a.js, b.js and   *)
(* c.js in some order, each holding at most MaxFileImports import          *)
(* statements that name the other files.                                   *)
(***************************************************************************)
\* The number of import statements in one file.
MaxFileImports == 2

\* import x from './<name>';
ImportStatement(name) ==
    <<"i", "m", "p", "o", "r", "t", " ", "x", " ", "f", "r", "o", "m", " ",
      SQ, ".", "/">> \o name \o <<SQ, ";">>

AfNames == {<<"a">>, <<"b">>, <<"c">>}

FileNamed(name) == name \o <<".", "j", "s">>

\* The sources a file can hold: its import statements name the other files.
AfSourcesOf(name) ==
    {Flatten([n \in 1..Len(targets) |-> ImportStatement(targets[n])]) :
        targets \in SeqsUpTo(AfNames \ {name}, MaxFileImports)}

\* The orders in which the three files are supplied.
AfOrders == {o \in [1..3 -> AfNames] : \A m, n \in 1..3 : o[m] = o[n] => m = n}

AfInputs ==
    {[n \in 1..3 |-> [file |-> FileNamed(o[n]), source |-> srcs[o[n]]]] :
        o \in AfOrders,
        srcs \in {f \in [AfNames -> UNION {AfSourcesOf(name) : name \in AfNames}] :
                    \A name \in AfNames : f[name] \in AfSourcesOf(name)}}

AfCall ==
    /\ NoCall
    /\ afFiles' \in AfInputs
    /\ afTokenized' = <<>> /\ afResults' = <<>> /\ afPc' = "tokenize"
    /\ UNCHANGED <<afOthers>>

\* First pass: files.map(({ file, source }) => ({ file, source, tokens })).
AfTokenize ==
    /\ afPc = "tokenize"
    /\ afTokenized' =
          [n \in 1..Len(afFiles) |->
              [file |-> afFiles[n].file, source |-> afFiles[n].source,
               tokens |-> Tokenize(afFiles[n].source)]]
    /\ afPc' = "analyze"
    /\ UNCHANGED <<afFiles, afResults, afOthers>>

\* tokenized.filter(f => f.file !== file).map(f => ({ file, tokens }))
OtherFilesOf(tokenized, file) ==
    LET others == SelectSeq(tokenized, LAMBDA f : f.file # file)
    IN [n \in 1..Len(others) |->
           [file |-> others[n].file, tokens |-> others[n].tokens]]

\* Second pass, one element of the map: analyze(source, { ...options, file,
\* otherFiles }) for the next file.
AfAnalyze ==
    /\ afPc = "analyze" /\ Len(afResults) < Len(afTokenized)
    /\ LET f == afTokenized[Len(afResults) + 1]
           o == Options(OptionsObject(
                    [file |-> f.file,
                     otherFiles |-> OtherFilesOf(afTokenized, f.file)]))
       IN afResults' =
             Append(afResults, AnalyzeResult(f.source, f.tokens, o))
    /\ UNCHANGED <<afFiles, afTokenized, afPc, afOthers>>

AfReturn ==
    /\ afPc = "analyze" /\ Len(afResults) = Len(afTokenized)
    /\ afPc' = "done"
    /\ UNCHANGED <<afFiles, afTokenized, afResults, afOthers>>

AfNext == AfCall \/ AfTokenize \/ AfAnalyze \/ AfReturn

SpecAf == Init /\ [][AfNext]_vars

\* C39: analyzeFiles reports the same number of circular dependencies in the
\* result of every file of the set, whatever the order of the files and of
\* their imports.
C39_SameCycleCountForEveryFile ==
    afPc = "done" =>
        \A m, n \in 1..Len(afResults) :
            afResults[m].summary.circularDeps
                = afResults[n].summary.circularDeps

(***************************************************************************)
(* Further properties of the complexity analyzer: the body spans.          *)
(***************************************************************************)
\* The function records the loop of analyzeComplexity has scored so far.
Scored == IF cxPc \in {"score", "done"} THEN 1..fnK ELSE {}

\* The body span of a function record: the index of its `{` and the
\* bodyCloseIdx analyzeComplexity computes for it.
BodySpan(fn) ==
    [open |-> fn.bodyOpenIdx, close |-> BodyCloseIdx(cxTokens, fn.bodyOpenIdx)]

\* Two spans have no index in common, or one lies strictly inside the other.
DisjointOrNested(s, t) ==
    \/ s.close < t.open \/ t.close < s.open
    \/ s.open < t.open /\ t.close < s.close
    \/ t.open < s.open /\ s.close < t.close

\* C40: for every scored function the closing index of the body is greater
\* than the index of its `{` and is the `}` at which the braces opened from
\* that `{` on are first all closed; the body spans of two scored functions
\* are disjoint or strictly nested.
C40_BodySpansWellFormed ==
    /\ \A n \in Scored :
          LET s == BodySpan(fnDefs[n])
              closers == Closers(cxTokens, s.open, "{", "}")
          IN /\ s.open < s.close
             /\ IsPunct(TokAt(cxTokens, s.close), "}")
             /\ closers # {} /\ s.close = Least(closers)
    /\ \A m, n \in Scored :
          m # n => DisjointOrNested(BodySpan(fnDefs[m]), BodySpan(fnDefs[n]))
====
